---------------------------- MODULE Spec2Model ----------------------------
(***************************************************************************)
(* A model of the k-means engine of ruby-umappp (src/vendor/kmeans):       *)
(* the vantage-point tree QuickSearch, the shared edge-case shortcut, the  *)
(* refiners Lloyd, HartiganWong and MiniBatch, and the initializers        *)
(* InitializeNone, InitializeRandom, InitializeKmeansPP and                *)
(* InitializePCAPartition.                                                 *)
(*                                                                         *)
(* DATA_t arithmetic is modelled by exact rational arithmetic: a value is  *)
(* a pair <<n, d>> in lowest terms with d > 0.  Square roots are never     *)
(* evaluated; every comparison the code makes between square roots is      *)
(* decided exactly on the squared values.  C++ arrays are functions on     *)
(* 0 .. n-1, as in the source.                                             *)
(***************************************************************************)
EXTENDS Integers, Sequences, FiniteSets, TLC

(***************************************************************************)
(* Exact arithmetic for DATA_t                                             *)
(***************************************************************************)
Abs(x) == IF x < 0 THEN -x ELSE x

RECURSIVE Gcd(_, _)
Gcd(a, b) == IF b = 0 THEN a ELSE Gcd(b, a % b)

Rat(n, d) ==
    LET g == Gcd(Abs(n), Abs(d))
        s == IF d < 0 THEN -1 ELSE 1
    IN  <<(s * n) \div g, (s * d) \div g>>

R(i) == <<i, 1>>
Zero == R(0)

\* The operations go through the least common denominator, and cancel
\* before they multiply, so that the intermediate integers stay small.
RAdd(x, y) ==
    LET g == Gcd(x[2], y[2])
    IN  Rat(x[1] * (y[2] \div g) + y[1] * (x[2] \div g), (x[2] \div g) * y[2])
RSub(x, y) == RAdd(x, <<-y[1], y[2]>>)
RMul(x, y) ==
    LET g1 == Gcd(Abs(x[1]), y[2])
        g2 == Gcd(Abs(y[1]), x[2])
    IN  Rat((x[1] \div g1) * (y[1] \div g2), (x[2] \div g2) * (y[2] \div g1))
RDiv(x, y) == RMul(x, IF y[1] < 0 THEN <<-y[2], -y[1]>> ELSE <<y[2], y[1]>>)
RLt(x, y) ==
    LET g == Gcd(x[2], y[2])
    IN  x[1] * (y[2] \div g) < y[1] * (x[2] \div g)
RLe(x, y) == ~RLt(y, x)

\* the integer square root, by Newton's iteration from above
RECURSIVE ISqrtFrom(_, _)
ISqrtFrom(n, r) == IF r * r <= n THEN r ELSE ISqrtFrom(n, (r + (n \div r)) \div 2)
ISqrt(n) == IF n < 2 THEN n ELSE ISqrtFrom(n, IF n < 46340 THEN n ELSE 46340)

HasRoot(x) == ISqrt(x[1]) * ISqrt(x[1]) = x[1] /\ ISqrt(x[2]) * ISqrt(x[2]) = x[2]
Root(x) == <<ISqrt(x[1]), ISqrt(x[2])>>

\* a + b >= c: the comparison below made on the squared distances
\* themselves, as if normalize() were left out
SqrtSumGe_squared(a, b, c) == RLe(c, RAdd(a, b))

\* sqrt(a) + sqrt(b) >= sqrt(c), for a, b, c >= 0, decided exactly: with the
\* roots when all three are rational, and otherwise without them, as
\* c - a - b <= 0 or (c - a - b)^2 <= 4ab.
SqrtSumGe(a, b, c) ==
    IF HasRoot(a) /\ HasRoot(b) /\ HasRoot(c)
    THEN RLe(Root(c), RAdd(Root(a), Root(b)))
    ELSE LET e == RSub(RSub(c, a), b)
         IN  \/ RLe(e, Zero)
             \/ RLe(RMul(e, e), RMul(R(4), RMul(a, b)))

\* sum over dim of (x[dim] - y[dim])^2
RECURSIVE SqDistFrom(_, _, _)
SqDistFrom(x, y, dim) ==
    IF dim > Len(x) THEN Zero
    ELSE RAdd(RMul(RSub(x[dim], y[dim]), RSub(x[dim], y[dim])),
              SqDistFrom(x, y, dim + 1))

\* f itself.  The comparison makes TLC tabulate a function written as
\* [x \in S |-> e] once, instead of evaluating e at every application.
Force(f) == IF f = f THEN f ELSE f

\* an observation (integer coordinates) as a DATA_t vector
Vec(p) == Force([dim \in 1..Len(p) |-> R(p[dim])])

(***************************************************************************)
(* QuickSearch.hpp: the vantage-point tree                                 *)
(***************************************************************************)
LEAF_MARKER == -1

\* std::mt19937_64 rand(1234567890): its first outputs, each reduced modulo
\* 60; rng() % gap is the same on the reduced value for every gap that
\* divides 60, i.e. for every tree of at most 6 points.
Mt19937_64 ==
    <<58, 12, 1, 26, 12, 5, 19, 7, 59, 19, 46, 3, 56, 19, 7, 32, 49, 2, 41, 43,
      24, 58, 7, 9, 32, 36, 1, 47, 44, 46, 32, 9, 57, 47, 4, 30, 27, 15, 32, 19>>

\* The same outputs as aarand::standard_uniform turns them into doubles
\* (output / 2^64), in millionths rounded down.  No value is within two
\* millionths of a ratio p/q with q <= 16, so every comparison the model
\* makes with them comes out as it does on the doubles.
Mt19937_64_uniform ==
    <<972810, 744906, 612674, 507734, 92513, 604895, 705221, 256621, 437708, 421813,
      917274, 481074, 908131, 121570, 120421, 92880, 354979, 163931, 883831, 76604,
      570207, 939956, 11300, 509014, 21310, 281107, 219676, 908665, 680303, 808580,
      458341, 972442, 335468, 49405, 452784, 405578, 486395, 624340, 687066, 534289>>

raw_distance(x, y) == SqDistFrom(x, y, 1)

NewNode == [threshold |-> Zero, index |-> 0, left |-> LEAF_MARKER, right |-> LEAF_MARKER]

Swap(f, i, j) == [f EXCEPT ![i] = f[j], ![j] = f[i]]

\* std::nth_element(first, nth, last, by distance): specified by its
\* postcondition only; libstdc++ finishes every range of at most 3 elements
\* with an insertion sort, which is what is modelled (for every length).
RECURSIVE InsertLeft(_, _, _)
InsertLeft(items, first, j) ==
    IF j > first /\ RLt(items[j].dist, items[j - 1].dist)
    THEN InsertLeft(Swap(items, j, j - 1), first, j - 1)
    ELSE items

RECURSIVE InsertionSort(_, _, _, _)
InsertionSort(items, first, last, j) ==
    IF j >= last THEN items
    ELSE InsertionSort(InsertLeft(items, first, j), first, last, j + 1)

nth_element(items, first, nth, last) == InsertionSort(items, first, last, first + 1)

\* b = [nodes, items, rng]: the tree under construction, the item list and
\* the outputs the engine has still to give.  Returns [pos, b].
RECURSIVE buildFromPoints(_, _, _, _)
buildFromPoints(lower, upper, b, reference) ==
    IF upper = lower THEN [pos |-> LEAF_MARKER, b |-> b]
    ELSE
      LET pos == Len(b.nodes)
          gap == upper - lower
      IN  IF gap > 1 THEN
            LET i       == (Head(b.rng) % gap) + lower
                items1  == Swap(b.items, lower, i)
                vantage == items1[lower]
                items2  == Force([k \in DOMAIN items1 |->
                              IF k > lower /\ k < upper
                              THEN [items1[k] EXCEPT !.dist =
                                      raw_distance(reference[vantage.index],
                                                   reference[items1[k].index])]
                              ELSE items1[k]])
                median  == lower + (gap \div 2)
                items3  == nth_element(items2, lower + 1, median, upper)
                b1      == [nodes |-> Append(b.nodes,
                                        [NewNode EXCEPT !.threshold = items3[median].dist,
                                                        !.index = vantage.index]),
                            items |-> items3,
                            rng   |-> Tail(b.rng)]
                l       == buildFromPoints(lower + 1, median, b1, reference)
                bl      == [l.b EXCEPT !.nodes[pos + 1].left = l.pos]
                r       == buildFromPoints(median, upper, bl, reference)
            IN  [pos |-> pos, b |-> [r.b EXCEPT !.nodes[pos + 1].right = r.pos]]
          ELSE
            [pos |-> pos,
             b   |-> [b EXCEPT !.nodes = Append(b.nodes,
                                   [NewNode EXCEPT !.index = b.items[lower].index])]]

\* QuickSearch(ndim, nobs, vals) with the engine's outputs given: the node
\* list; node i of the source is nodes[i + 1], its threshold kept squared.
QuickSearchWith(num_obs, reference, rng) ==
    LET items == Force([i \in 0..(num_obs - 1) |-> [index |-> i, dist |-> Zero]])
    IN  buildFromPoints(0, num_obs, [nodes |-> <<>>, items |-> items, rng |-> rng],
                        reference).b.nodes

QuickSearch(num_obs, reference) == QuickSearchWith(num_obs, reference, Mt19937_64)

\* tau is [inf, sq]: inf stands for std::numeric_limits<DATA_t>::max(),
\* otherwise sq is the square of tau.
TauMax == [inf |-> TRUE, sq |-> Zero]

RECURSIVE search_nn(_, _, _, _, _)
search_nn(curnode_index, target, s, nodes, reference) ==
    IF curnode_index = LEAF_MARKER THEN s
    ELSE
      LET curnode == nodes[curnode_index + 1]
          dist    == raw_distance(reference[curnode.index], target)
          s1      == IF s.tau.inf \/ RLt(dist, s.tau.sq)
                     THEN [closest |-> curnode.index, tau |-> [inf |-> FALSE, sq |-> dist]]
                     ELSE s
          \* dist - tau <= threshold   and   dist + tau >= threshold
          Inside(t)  == t.tau.inf \/ SqrtSumGe(t.tau.sq, curnode.threshold, dist)
          Outside(t) == t.tau.inf \/ SqrtSumGe(dist, t.tau.sq, curnode.threshold)
      IN  IF curnode.left = LEAF_MARKER /\ curnode.right = LEAF_MARKER THEN s1
          ELSE IF RLt(dist, curnode.threshold) THEN
            LET s2 == IF Inside(s1)
                      THEN search_nn(curnode.left, target, s1, nodes, reference) ELSE s1
            IN  IF Outside(s2)
                THEN search_nn(curnode.right, target, s2, nodes, reference) ELSE s2
          ELSE
            LET s2 == IF Outside(s1)
                      THEN search_nn(curnode.right, target, s1, nodes, reference) ELSE s1
            IN  IF Inside(s2)
                THEN search_nn(curnode.left, target, s2, nodes, reference) ELSE s2

\* find_with_distance had it returned raw_distance to the closest point
\* instead of tau: the squared tau is then the square of the raw distance
find_with_distance_raw(query, nodes, reference) ==
    LET s == search_nn(0, query, [closest |-> 0, tau |-> TauMax], nodes, reference)
    IN  [closest |-> s.closest,
         tau |-> [inf |-> s.tau.inf, sq |-> RMul(s.tau.sq, s.tau.sq)]]

find_with_distance(query, nodes, reference) ==
    search_nn(0, query, [closest |-> 0, tau |-> TauMax], nodes, reference)

find(query, nodes, reference) ==
    search_nn(0, query, [closest |-> 0, tau |-> TauMax], nodes, reference).closest

(***************************************************************************)
(* Bounds of the model                                                     *)
(***************************************************************************)
MaxObs == 3      \* observations per dataset
MaxObsHW == 4    \* observations per dataset given to HartiganWong
MaxObsLloyd == 4   \* observations per dataset given to Lloyd
MaxCoord == 2    \* coordinates are 0 .. MaxCoord
MaxCoordHW == 4  \* coordinates of the datasets given to HartiganWong
MaxCoordLloyd == 3 \* coordinates of the datasets and centers given to Lloyd
MaxIter == 2     \* max_iterations is 0 .. MaxIter
MaxRuns == 2     \* calls of run() on one strategy object
MaxIterMB == 5   \* MiniBatch's max_iterations is 0 .. MaxIterMB
MinBatch == 2    \* MiniBatch's batch_size is MinBatch .. MaxObs
MaxHistory == 2  \* MiniBatch's convergence_history is 1 .. MaxHistory
MaxCenter == 3   \* the centers given to MiniBatch have coordinates 0 .. MaxCenter
MaxRef == 4      \* reference points of a QuickSearch
MaxObsLive == 6  \* observations of the datasets of the live-set runs of HartiganWong
MaxCoordLive == 5 \* coordinates of those datasets are 0 .. MaxCoordLive
MaxPopulation == 4  \* sample_without_replacement: population is 0 .. MaxPopulation
MaxChoose == 5      \* sample_without_replacement: choose is 0 .. MaxChoose

(***************************************************************************)
(* State                                                                   *)
(***************************************************************************)
VARIABLES
    algo,      \* the class whose method runs: QuickSearch, a refiner or an initializer
    pc,        \* position of the running method
    ndim,      \* arguments of run(): int ndim
    data,      \*   const DATA_t* data, as [0..nobs-1 -> point]
    ncenters,  \*   CLUSTER_t ncenters
    centers,   \*   DATA_t* centers, as [0..ncenters-1 -> vector]
    clusters,  \*   CLUSTER_t* clusters, as [0..nobs-1 -> CLUSTER_t]
    cfg,       \* the strategy object's settings (maxiter, batch_size, ...)
    self,      \* the strategy object's other members (HartiganWong's work arrays)
    loc,       \* the locals of the running method
    details,   \* the Details value returned by the last completed run
    run,       \* how many calls of run() the caller has made
    entry,     \* centers and clusters as the caller passed them to the current call
    prev       \* what the previous call returned and left in the buffers

vars == <<algo, pc, ndim, data, ncenters, centers, clusters, cfg, self, loc,
          details, run, entry, prev>>

nobs == Cardinality(DOMAIN data)
Obs == 0..(nobs - 1)
Cen == 0..(ncenters - 1)

None == [none |-> TRUE]

\* the classes derived from Refine and from Initialize
Refiners == {"Lloyd", "HartiganWong", "MiniBatch"}
Initializers ==
    {"InitializeNone", "InitializeRandom", "InitializeKmeansPP", "InitializePCAPartition"}

(***************************************************************************)
(* compute_centroids.hpp, compute_wcss.hpp, is_edge_case.hpp, Details.hpp  *)
(***************************************************************************)
\* Details(int it, int st), were it to drop the status it is given
Details2_clean(it, st) == [sizes |-> <<>>, withinss |-> <<>>, iterations |-> it, status |-> 0]

\* Details(it, st) and Details(s, w, it, st)
Details2(it, st) == [sizes |-> <<>>, withinss |-> <<>>, iterations |-> it, status |-> st]
Details4(s, w, it, st) == [sizes |-> s, withinss |-> w, iterations |-> it, status |-> st]

\* sum over obs in from..n-1 with cl[obs] = cen of dt[obs][dim]
RECURSIVE SumDim(_, _, _, _, _, _)
SumDim(dt, cl, n, cen, dim, from) ==
    IF from >= n THEN 0
    ELSE (IF cl[from] = cen THEN dt[from][dim] ELSE 0) + SumDim(dt, cl, n, cen, dim, from + 1)

\* the sums of the clusters, not divided by their sizes
compute_centroids_sums(nd, n, dt, nc, cl, sizes) ==
    Force([cen \in 0..(nc - 1) |-> [dim \in 1..nd |-> R(SumDim(dt, cl, n, cen, dim, 0))]])

compute_centroids(nd, n, dt, nc, cl, sizes) ==
    Force([cen \in 0..(nc - 1) |->
        [dim \in 1..nd |->
            IF sizes[cen] # 0
            THEN Rat(SumDim(dt, cl, n, cen, dim, 0), sizes[cen])
            ELSE R(SumDim(dt, cl, n, cen, dim, 0))]])

RECURSIVE SumSq(_, _, _, _, _, _)
SumSq(dt, cl, n, cs, cen, from) ==
    IF from >= n THEN Zero
    ELSE RAdd(IF cl[from] = cen THEN raw_distance(Vec(dt[from]), cs[cen]) ELSE Zero,
              SumSq(dt, cl, n, cs, cen, from + 1))

compute_wcss(nd, n, dt, nc, cs, cl) ==
    Force([cen \in 0..(nc - 1) |-> SumSq(dt, cl, n, cs, cen, 0)])

is_edge_case(n, nc) == nc <= 1 \/ nc >= n

\* the number of observations that cl puts in cluster cen
Count(cl, n, cen) == Cardinality({obs \in 0..(n - 1) : cl[obs] = cen})

\* [centers, clusters, details] as process_edge_case leaves and returns them
process_edge_case(nd, n, dt, nc, cs, cl) ==
    IF nc = 1 THEN
        LET cl1   == Force([obs \in 0..(n - 1) |-> 0])
            sizes == Force([cen \in 0..0 |-> n])
            cs1   == compute_centroids(nd, n, dt, nc, cl1, sizes)
        IN  [centers |-> cs1, clusters |-> cl1,
             details |-> Details4(sizes, compute_wcss(nd, n, dt, nc, cs1, cl1), 0, 0)]
    ELSE IF nc >= n THEN
        LET cl1   == Force([obs \in 0..(n - 1) |-> obs])
            sizes == Force([cen \in 0..(nc - 1) |-> IF cen < n THEN 1 ELSE 0])
            cs1   == compute_centroids(nd, n, dt, nc, cl1, sizes)
        IN  [centers |-> cs1, clusters |-> cl1,
             details |-> Details4(sizes, compute_wcss(nd, n, dt, nc, cs1, cl1), 0,
                                  IF nc > n THEN 3 ELSE 0)]
    ELSE [centers |-> cs, clusters |-> cl, details |-> Details2(0, 3)]

\* what the caller sees when run() returns through the shortcut
ReturnEdge ==
    \E e \in {process_edge_case(ndim, nobs, data, ncenters, centers, clusters)} :
        /\ centers' = e.centers
        /\ clusters' = e.clusters
        /\ details' = e.details
        /\ pc' = "done"

(***************************************************************************)
(* Lloyd.hpp                                                               *)
(***************************************************************************)
\* Lloyd::run up to the first test of the loop condition
LloydRun ==
    /\ algo = "Lloyd" /\ pc = "call"
    /\ entry' = [centers |-> centers, clusters |-> clusters]
    /\ IF is_edge_case(nobs, ncenters)
       THEN ReturnEdge /\ UNCHANGED loc
       ELSE /\ loc' = [iter |-> 1, status |-> 0, sizes |-> [c \in Cen |-> 0]]
            /\ pc' = IF 1 <= cfg.maxiter THEN "lloyd_loop" ELSE "lloyd_ret"
            /\ UNCHANGED <<centers, clusters, details>>
    /\ UNCHANGED <<algo, ndim, data, ncenters, cfg, self, run, prev>>

\* one iteration of the loop of Lloyd::run, were it to look for a change
\* at the first observation alone
LloydIterate_first ==
    /\ algo = "Lloyd" /\ pc = "lloyd_loop"
    /\ \E index \in {QuickSearch(ncenters, centers)} :
       \E copy \in {Force([obs \in Obs |-> find(Vec(data[obs]), index, centers)])} :
       \E sizes \in {Force([c \in Cen |-> Count(copy, nobs, c)])} :
       LET updated == \E obs \in Obs : obs = 0 /\ copy[obs] # clusters[obs]
           status  == IF \E c \in Cen : sizes[c] = 0 THEN 1 ELSE loc.status
       IN  IF ~updated
           THEN /\ pc' = "lloyd_ret"
                /\ UNCHANGED <<centers, clusters, loc>>
           ELSE /\ clusters' = copy
                /\ centers' = compute_centroids(ndim, nobs, data, ncenters, copy, sizes)
                /\ loc' = [iter |-> loc.iter + 1, status |-> status, sizes |-> sizes]
                /\ pc' = IF loc.iter + 1 <= cfg.maxiter THEN "lloyd_loop" ELSE "lloyd_ret"
    /\ UNCHANGED <<algo, ndim, data, ncenters, cfg, self, details, run, entry, prev>>

\* one iteration of the loop of Lloyd::run
LloydIterate ==
    /\ algo = "Lloyd" /\ pc = "lloyd_loop"
    /\ \E index \in {QuickSearch(ncenters, centers)} :
       \E copy \in {Force([obs \in Obs |-> find(Vec(data[obs]), index, centers)])} :
       \E sizes \in {Force([c \in Cen |-> Count(copy, nobs, c)])} :
       LET updated == \E obs \in Obs : copy[obs] # clusters[obs]
           status  == IF \E c \in Cen : sizes[c] = 0 THEN 1 ELSE loc.status
       IN  IF ~updated
           THEN /\ pc' = "lloyd_ret"
                /\ UNCHANGED <<centers, clusters, loc>>
           ELSE /\ clusters' = copy
                /\ centers' = compute_centroids(ndim, nobs, data, ncenters, copy, sizes)
                /\ loc' = [iter |-> loc.iter + 1, status |-> status, sizes |-> sizes]
                /\ pc' = IF loc.iter + 1 <= cfg.maxiter THEN "lloyd_loop" ELSE "lloyd_ret"
    /\ UNCHANGED <<algo, ndim, data, ncenters, cfg, self, details, run, entry, prev>>

\* Lloyd::run after the loop, were it to report status 0 also when the
\* iterations have run out
LloydReturn_silent ==
    /\ algo = "Lloyd" /\ pc = "lloyd_ret"
    /\ details' = Details4(loc.sizes,
                           compute_wcss(ndim, nobs, data, ncenters, centers, clusters),
                           loc.iter, loc.status)
    /\ pc' = "done"
    /\ UNCHANGED <<algo, ndim, data, ncenters, centers, clusters, cfg, self, loc,
                   run, entry, prev>>

\* Lloyd::run after the loop, were the no-change exit to clear the status
LloydReturn_cleared ==
    /\ algo = "Lloyd" /\ pc = "lloyd_ret"
    /\ details' = Details4(loc.sizes,
                           compute_wcss(ndim, nobs, data, ncenters, centers, clusters),
                           loc.iter,
                           IF loc.iter = cfg.maxiter + 1 THEN 2 ELSE 0)
    /\ pc' = "done"
    /\ UNCHANGED <<algo, ndim, data, ncenters, centers, clusters, cfg, self, loc,
                   run, entry, prev>>

\* Lloyd::run after the loop
LloydReturn ==
    /\ algo = "Lloyd" /\ pc = "lloyd_ret"
    /\ details' = Details4(loc.sizes,
                           compute_wcss(ndim, nobs, data, ncenters, centers, clusters),
                           loc.iter,
                           IF loc.iter = cfg.maxiter + 1 THEN 2 ELSE loc.status)
    /\ pc' = "done"
    /\ UNCHANGED <<algo, ndim, data, ncenters, centers, clusters, cfg, self, loc,
                   run, entry, prev>>

(***************************************************************************)
(* HartiganWong.hpp                                                        *)
(***************************************************************************)
\* static constexpr double big = 1e30: larger than any value the bounded
\* data can produce.
big == R(1000000)

ncp_init == 0
ncp_unchanged == 1
ncp_shift == 2

\* v.resize(n) of a std::vector: the elements kept, the new ones value-initialised
Resize(v, n, zero) == Force([i \in 0..(n - 1) |-> IF i \in DOMAIN v THEN v[i] ELSE zero])

\* The state the private methods work on is one record h:
\*   centers (centers_ptr), ic1 (the clusters buffer), ic2, nc, an1, an2, ncp,
\*   d, itran, live, and the locals indx, imaxqtr, icoun, istep of run() and
\*   quick_transfer() that they pass by reference.
squared_distance_from_cluster(h, dt, pt, clust) ==
    raw_distance(Vec(dt[pt]), h.centers[clust])

set_ncp(ncp, c, val) == [ncp EXCEPT ![c] = val + ncp_shift]
unchanged_ncp(h, c) == h.ncp[c] = ncp_unchanged
lt_ncp(h, c, val) == h.ncp[c] > val + ncp_shift
le_ncp(h, c, val) == h.ncp[c] >= val + ncp_shift

\* the scan of run() for the two closest centres of obs: [best, second]
RECURSIVE TwoClosest(_, _, _, _, _, _)
TwoClosest(h, dt, obs, k, cen, t) ==
    IF cen >= k THEN t
    ELSE LET candidate_dist == squared_distance_from_cluster(h, dt, obs, cen)
             t1 == IF RLt(candidate_dist, t.second_dist)
                   THEN IF RLt(candidate_dist, t.best_dist)
                        THEN [best |-> cen, best_dist |-> candidate_dist,
                              second |-> t.best, second_dist |-> t.best_dist]
                        ELSE [t EXCEPT !.second = cen, !.second_dist = candidate_dist]
                   ELSE t
         IN  TwoClosest(h, dt, obs, k, cen + 1, t1)

\* the scan for the two closest centres, were the first two centres taken
\* in their given order without comparing them
InitialClosest_unordered(h, dt, obs, k) ==
    LET d0 == squared_distance_from_cluster(h, dt, obs, 0)
        d1 == squared_distance_from_cluster(h, dt, obs, 1)
    IN  TwoClosest(h, dt, obs, k, 2,
                   [best |-> 0, best_dist |-> d0, second |-> 1, second_dist |-> d1])

InitialClosest(h, dt, obs, k) ==
    LET d0 == squared_distance_from_cluster(h, dt, obs, 0)
        d1 == squared_distance_from_cluster(h, dt, obs, 1)
        t  == IF RLt(d1, d0)
              THEN [best |-> 1, best_dist |-> d1, second |-> 0, second_dist |-> d0]
              ELSE [best |-> 0, best_dist |-> d0, second |-> 1, second_dist |-> d1]
    IN  TwoClosest(h, dt, obs, k, 2, t)

An1(num) == IF num > 1 THEN Rat(num, num - 1) ELSE big
\* a factor that makes a transfer into a cluster look cheaper than it is
An2_cheap(num) == Rat(num, num + 3)

An2(num) == Rat(num, num + 1)

\* transfer_point, were it to leave the counts nc as they are
transfer_point_uncounted(h, dt, obs, l1, l2) ==
    LET al1 == h.nc[l1]
        alw == al1 - 1
        al2 == h.nc[l2]
        alt == al2 + 1
        acopy == Vec(dt[obs])
        copy1 == Force([dim \in DOMAIN acopy |->
                    RDiv(RSub(RMul(h.centers[l1][dim], R(al1)), acopy[dim]), R(alw))])
        copy2 == Force([dim \in DOMAIN acopy |->
                    RDiv(RAdd(RMul(h.centers[l2][dim], R(al2)), acopy[dim]), R(alt))])
    IN  [h EXCEPT !.centers = [@ EXCEPT ![l1] = copy1, ![l2] = copy2],
                  !.an2 = [@ EXCEPT ![l1] = Rat(alw, al1), ![l2] = Rat(alt, alt + 1)],
                  !.an1 = [@ EXCEPT ![l1] = An1(alw), ![l2] = Rat(alt, al2)],
                  !.ic1 = [@ EXCEPT ![obs] = l2],
                  !.ic2 = [@ EXCEPT ![obs] = l1]]

\* transfer_point, were the centre of l2 moved half way to the observation
\* instead of being weighted by the count of l2
transfer_point_unweighted(h, dt, obs, l1, l2) ==
    LET al1 == h.nc[l1]
        alw == al1 - 1
        al2 == h.nc[l2]
        alt == al2 + 1
        acopy == Vec(dt[obs])
        copy1 == Force([dim \in DOMAIN acopy |->
                    RDiv(RSub(RMul(h.centers[l1][dim], R(al1)), acopy[dim]), R(alw))])
        copy2 == Force([dim \in DOMAIN acopy |->
                    RDiv(RAdd(h.centers[l2][dim], acopy[dim]), R(2))])
    IN  [h EXCEPT !.centers = [@ EXCEPT ![l1] = copy1, ![l2] = copy2],
                  !.nc = [@ EXCEPT ![l1] = alw, ![l2] = alt],
                  !.an2 = [@ EXCEPT ![l1] = Rat(alw, al1), ![l2] = Rat(alt, alt + 1)],
                  !.an1 = [@ EXCEPT ![l1] = An1(alw), ![l2] = Rat(alt, al2)],
                  !.ic1 = [@ EXCEPT ![obs] = l2],
                  !.ic2 = [@ EXCEPT ![obs] = l1]]

transfer_point(h, dt, obs, l1, l2) ==
    LET al1 == h.nc[l1]
        alw == al1 - 1
        al2 == h.nc[l2]
        alt == al2 + 1
        acopy == Vec(dt[obs])
        copy1 == Force([dim \in DOMAIN acopy |->
                    RDiv(RSub(RMul(h.centers[l1][dim], R(al1)), acopy[dim]), R(alw))])
        copy2 == Force([dim \in DOMAIN acopy |->
                    RDiv(RAdd(RMul(h.centers[l2][dim], R(al2)), acopy[dim]), R(alt))])
    IN  [h EXCEPT !.centers = [@ EXCEPT ![l1] = copy1, ![l2] = copy2],
                  !.nc = [@ EXCEPT ![l1] = alw, ![l2] = alt],
                  !.an2 = [@ EXCEPT ![l1] = Rat(alw, al1), ![l2] = Rat(alt, alt + 1)],
                  !.an1 = [@ EXCEPT ![l1] = An1(alw), ![l2] = Rat(alt, al2)],
                  !.ic1 = [@ EXCEPT ![obs] = l2],
                  !.ic2 = [@ EXCEPT ![obs] = l1]]

\* the scan for the minimum R2, were it to go over every cluster whether
\* live or not
RECURSIVE MinR2_all(_, _, _, _, _, _, _, _)
MinR2_all(h, dt, obs, k, l1, ll, cen, m) ==
    IF cen >= k THEN m
    ELSE IF cen = l1 \/ cen = ll
         THEN MinR2_all(h, dt, obs, k, l1, ll, cen + 1, m)
         ELSE LET rr == RDiv(m.r2, h.an2[cen])
                  dc == squared_distance_from_cluster(h, dt, obs, cen)
              IN  MinR2_all(h, dt, obs, k, l1, ll, cen + 1,
                        IF RLt(dc, rr) THEN [r2 |-> RMul(dc, h.an2[cen]), l2 |-> cen]
                        ELSE m)

\* the search of optimal_transfer for the cluster with minimum R2: [r2, l2]
RECURSIVE MinR2(_, _, _, _, _, _, _, _)
MinR2(h, dt, obs, k, l1, ll, cen, m) ==
    IF cen >= k THEN m
    ELSE IF (obs >= h.live[l1] /\ obs >= h.live[cen]) \/ cen = l1 \/ cen = ll
         THEN MinR2(h, dt, obs, k, l1, ll, cen + 1, m)
         ELSE LET rr == RDiv(m.r2, h.an2[cen])
                  dc == squared_distance_from_cluster(h, dt, obs, cen)
              IN  MinR2(h, dt, obs, k, l1, ll, cen + 1,
                        IF RLt(dc, rr) THEN [r2 |-> RMul(dc, h.an2[cen]), l2 |-> cen]
                        ELSE m)

\* optimal_transfer's step, were a transfer not to restart the count indx
OptraObs_counting(h, dt, n, k, obs) ==
    LET h0 == [h EXCEPT !.indx = @ + 1]
        l1 == h0.ic1[obs]
    IN  IF h0.nc[l1] = 1 THEN h0
        ELSE
          LET h1 == IF ~unchanged_ncp(h0, l1)
                    THEN [h0 EXCEPT !.d[obs] =
                            RMul(squared_distance_from_cluster(h0, dt, obs, l1), h0.an1[l1])]
                    ELSE h0
              ll == h1.ic2[obs]
              m  == MinR2(h1, dt, obs, k, l1, ll, 0,
                          [r2 |-> RMul(squared_distance_from_cluster(h1, dt, obs, ll),
                                       h1.an2[ll]),
                           l2 |-> ll])
          IN  IF RLe(h1.d[obs], m.r2)
              THEN [h1 EXCEPT !.ic2[obs] = m.l2]
              ELSE transfer_point(
                     [h1 EXCEPT !.live = [@ EXCEPT ![l1] = n + obs, ![m.l2] = n + obs],
                                !.ncp = set_ncp(set_ncp(@, l1, obs), m.l2, obs)],
                     dt, obs, l1, m.l2)

\* the body of the loop of optimal_transfer for observation obs, up to the
\* test of indx
OptraObs(h, dt, n, k, obs) ==
    LET h0 == [h EXCEPT !.indx = @ + 1]
        l1 == h0.ic1[obs]
    IN  IF h0.nc[l1] = 1 THEN h0
        ELSE
          LET h1 == IF ~unchanged_ncp(h0, l1)
                    THEN [h0 EXCEPT !.d[obs] =
                            RMul(squared_distance_from_cluster(h0, dt, obs, l1), h0.an1[l1])]
                    ELSE h0
              ll == h1.ic2[obs]
              m  == MinR2(h1, dt, obs, k, l1, ll, 0,
                          [r2 |-> RMul(squared_distance_from_cluster(h1, dt, obs, ll),
                                       h1.an2[ll]),
                           l2 |-> ll])
          IN  IF RLe(h1.d[obs], m.r2)
              THEN [h1 EXCEPT !.ic2[obs] = m.l2]
              ELSE transfer_point(
                     [h1 EXCEPT !.indx = 0,
                                !.live = [@ EXCEPT ![l1] = n + obs, ![m.l2] = n + obs],
                                !.ncp = set_ncp(set_ncp(@, l1, obs), m.l2, obs)],
                     dt, obs, l1, m.l2)

\* the start of optimal_transfer, before its loop
OptraEnter(h, n) ==
    [h EXCEPT !.live = Force([cen \in DOMAIN h.live |->
                                IF h.itran[cen] THEN n ELSE h.live[cen]])]

\* the end of optimal_transfer, after a whole pass
OptraLeave(h, n) ==
    [h EXCEPT !.itran = Force([cen \in DOMAIN h.itran |-> FALSE]),
              !.live = Force([cen \in DOMAIN h.live |-> h.live[cen] - n])]

\* quick_transfer's step, were a transfer not to restart the count icoun
QtranObs_counting(h, dt, n, obs) ==
    LET h0 == [h EXCEPT !.icoun = @ + 1]
        l1 == h0.ic1[obs]
    IN  IF h0.nc[l1] = 1 THEN h0
        ELSE
          LET h1 == IF le_ncp(h0, l1, h0.istep)
                    THEN [h0 EXCEPT !.d[obs] =
                            RMul(squared_distance_from_cluster(h0, dt, obs, l1), h0.an1[l1])]
                    ELSE h0
              l2 == h1.ic2[obs]
          IN  IF /\ lt_ncp(h1, l1, h1.istep) \/ lt_ncp(h1, l2, h1.istep)
                 /\ RLt(squared_distance_from_cluster(h1, dt, obs, l2),
                        RDiv(h1.d[obs], h1.an2[l2]))
              THEN transfer_point(
                     [h1 EXCEPT !.indx = 0,
                                !.itran = [@ EXCEPT ![l1] = TRUE, ![l2] = TRUE],
                                !.ncp = set_ncp(set_ncp(@, l1, h1.istep + n), l2, h1.istep + n)],
                     dt, obs, l1, l2)
              ELSE h1

\* the body of the loop of quick_transfer for observation obs, up to the
\* test of icoun
QtranObs(h, dt, n, obs) ==
    LET h0 == [h EXCEPT !.icoun = @ + 1]
        l1 == h0.ic1[obs]
    IN  IF h0.nc[l1] = 1 THEN h0
        ELSE
          LET h1 == IF le_ncp(h0, l1, h0.istep)
                    THEN [h0 EXCEPT !.d[obs] =
                            RMul(squared_distance_from_cluster(h0, dt, obs, l1), h0.an1[l1])]
                    ELSE h0
              l2 == h1.ic2[obs]
          IN  IF /\ lt_ncp(h1, l1, h1.istep) \/ lt_ncp(h1, l2, h1.istep)
                 /\ RLt(squared_distance_from_cluster(h1, dt, obs, l2),
                        RDiv(h1.d[obs], h1.an2[l2]))
              THEN transfer_point(
                     [h1 EXCEPT !.icoun = 0, !.indx = 0,
                                !.itran = [@ EXCEPT ![l1] = TRUE, ![l2] = TRUE],
                                !.ncp = set_ncp(set_ncp(@, l1, h1.istep + n), l2, h1.istep + n)],
                     dt, obs, l1, l2)
              ELSE h1

\* the record h of the running call, and its parts written back
HW == [centers |-> centers, ic1 |-> clusters, ic2 |-> self.ic2, nc |-> self.nc,
       an1 |-> self.an1, an2 |-> self.an2, ncp |-> self.ncp, d |-> self.d,
       itran |-> self.itran, live |-> self.live, indx |-> loc.indx,
       imaxqtr |-> loc.imaxqtr, icoun |-> loc.icoun, istep |-> loc.istep]

Store(h, iter, ifault, obs) ==
    /\ centers' = h.centers
    /\ clusters' = h.ic1
    /\ self' = [ic2 |-> h.ic2, nc |-> h.nc, an1 |-> h.an1, an2 |-> h.an2, ncp |-> h.ncp,
                d |-> h.d, itran |-> h.itran, live |-> h.live]
    /\ loc' = [iter |-> iter, ifault |-> ifault, obs |-> obs, indx |-> h.indx,
               imaxqtr |-> h.imaxqtr, icoun |-> h.icoun, istep |-> h.istep]

\* std::numeric_limits<INDEX_t>::max() of the default INDEX_t = int
INDEX_t_max == 2147483647

\* a default-constructed HartiganWong: its vectors are empty
NewHartiganWong == [ic2 |-> <<>>, nc |-> <<>>, an1 |-> <<>>, an2 |-> <<>>, ncp |-> <<>>,
                    d |-> <<>>, itran |-> <<>>, live |-> <<>>]

\* an1 and an2 as the loop over the clusters leaves them: it returns at the
\* first empty cluster
RECURSIVE InitAn(_, _, _, _)
InitAn(a, nc, k, cen) ==
    IF cen >= k \/ nc[cen] = 0 THEN a
    ELSE InitAn([an1 |-> [a.an1 EXCEPT ![cen] = An1(nc[cen])],
                 an2 |-> [a.an2 EXCEPT ![cen] = An2(nc[cen])]], nc, k, cen + 1)

\* HartiganWong::run up to the first call of optimal_transfer, or to its
\* return through the shortcut or the empty-cluster check
HartiganWongRun ==
    /\ algo = "HartiganWong" /\ pc = "call"
    /\ entry' = [centers |-> centers, clusters |-> clusters]
    /\ LET n  == nobs
           k  == ncenters
       IN
       \* nc.resize(num_centers) of a negative count asks for more than
       \* max_size() elements: std::length_error leaves run()
       IF k < 0
       THEN /\ self' = [self EXCEPT !.ic2 = Resize(self.ic2, n, 0)]
            /\ pc' = "thrown"
            /\ UNCHANGED <<centers, clusters, details, loc>>
       ELSE
       \E s0 \in {[ic2   |-> Resize(self.ic2, n, 0),   nc   |-> Resize(self.nc, k, 0),
                    an1   |-> Resize(self.an1, k, Zero), an2  |-> Resize(self.an2, k, Zero),
                    d     |-> Resize(self.d, n, Zero),    ncp  |-> Resize(self.ncp, k, 0),
                    itran |-> Resize(self.itran, k, FALSE), live |-> Resize(self.live, k, 0)]} :
           IF is_edge_case(n, k)
           THEN ReturnEdge /\ self' = s0 /\ UNCHANGED loc
           ELSE
             \E t \in {Force([obs \in Obs |-> InitialClosest([centers |-> centers], data, obs, k)])} :
             \E nc \in {Force([cen \in Cen |-> Count([obs \in Obs |-> t[obs].best], n, cen)])} :
             \E cs \in {compute_centroids(ndim, n, data, k, [obs \in Obs |-> t[obs].best], nc)} :
             LET ic1 == Force([obs \in Obs |-> t[obs].best])
                 ic2 == Force([obs \in Obs |-> t[obs].second])
                 an  == InitAn([an1 |-> s0.an1, an2 |-> s0.an2], nc, k, 0)
                 h1  == [centers |-> cs, ic1 |-> ic1, ic2 |-> ic2, nc |-> nc,
                         an1 |-> an.an1, an2 |-> an.an2, ncp |-> s0.ncp, d |-> s0.d,
                         itran |-> s0.itran, live |-> s0.live,
                         indx |-> 0, imaxqtr |-> 0, icoun |-> 0, istep |-> 0]
                 h2  == [h1 EXCEPT !.imaxqtr = n * 50,
                                   !.ncp = Force([cen \in Cen |-> ncp_init]),
                                   !.itran = Force([cen \in Cen |-> TRUE]),
                                   !.live = Force([cen \in Cen |-> 0])]
             IN  IF \E cen \in Cen : nc[cen] = 0
                 THEN /\ Store(h1, 0, 1, 0)
                      /\ details' = Details2(0, 1)
                      /\ pc' = "done"
                 ELSE IF INDEX_t_max \div 50 < n
                 \* std::runtime_error, after the centers and the work
                 \* arrays have been written
                 THEN /\ Store(h1, 0, 0, 0)
                      /\ details' = details
                      /\ pc' = "thrown"
                 ELSE /\ details' = details
                      /\ IF 1 <= cfg.maxiter
                         THEN Store(OptraEnter(h2, n), 1, 0, 0) /\ pc' = "optra"
                         ELSE Store(h2, 1, 0, 0) /\ pc' = "hw_ret"
    /\ UNCHANGED <<algo, ndim, data, ncenters, cfg, run, prev>>

\* optimal_transfer: one observation; after the last one, or after nobs
\* steps without a transfer, back in run()
OptimalTransferStep ==
    /\ algo = "HartiganWong" /\ pc = "optra"
    /\ \E h \in {OptraObs(HW, data, nobs, ncenters, loc.obs)} :
       LET n == nobs
       IN  IF h.indx = n
           THEN Store(h, loc.iter, loc.ifault, loc.obs) /\ pc' = "hw_ret"
           ELSE IF loc.obs + 1 < n
           THEN Store(h, loc.iter, loc.ifault, loc.obs + 1) /\ pc' = "optra"
           ELSE Store([OptraLeave(h, n) EXCEPT !.icoun = 0, !.istep = 0],
                      loc.iter, loc.ifault, 0) /\ pc' = "qtran"
    /\ UNCHANGED <<algo, ndim, data, ncenters, cfg, details, run, entry, prev>>

\* quick_transfer's step, were run() to go on to another optimal-transfer
\* pass also when there are two centres
QuickTransferStep_again ==
    /\ algo = "HartiganWong" /\ pc = "qtran"
    /\ \E h \in {QtranObs(HW, data, nobs, loc.obs)} :
       LET n  == nobs
           h1 == [h EXCEPT !.istep = @ + 1]
           \* run() after quick_transfer has returned with record g
           Back(g) ==
               IF g.imaxqtr < 0
               THEN Store(g, loc.iter, 4, loc.obs) /\ pc' = "hw_ret"
               ELSE LET g1 == [g EXCEPT !.ncp = Force([cen \in Cen |-> ncp_unchanged])]
                    IN  IF loc.iter + 1 <= cfg.maxiter
                        THEN Store(OptraEnter(g1, n), loc.iter + 1, loc.ifault, 0)
                             /\ pc' = "optra"
                        ELSE Store(g1, loc.iter + 1, loc.ifault, loc.obs)
                             /\ pc' = "hw_ret"
       IN  IF h.icoun = n THEN Back(h)
           ELSE IF h1.istep >= h1.imaxqtr THEN Back([h1 EXCEPT !.imaxqtr = -1])
           ELSE Store(h1, loc.iter, loc.ifault, (loc.obs + 1) % n) /\ pc' = "qtran"
    /\ UNCHANGED <<algo, ndim, data, ncenters, cfg, details, run, entry, prev>>

\* quick_transfer: one observation; on its return, run() up to the next
\* call of optimal_transfer or to the end of its loop
QuickTransferStep ==
    /\ algo = "HartiganWong" /\ pc = "qtran"
    /\ \E h \in {QtranObs(HW, data, nobs, loc.obs)} :
       LET n  == nobs
           h1 == [h EXCEPT !.istep = @ + 1]
           \* run() after quick_transfer has returned with record g
           Back(g) ==
               IF g.imaxqtr < 0
               THEN Store(g, loc.iter, 4, loc.obs) /\ pc' = "hw_ret"
               ELSE IF ncenters = 2
               THEN Store(g, loc.iter, loc.ifault, loc.obs) /\ pc' = "hw_ret"
               ELSE LET g1 == [g EXCEPT !.ncp = Force([cen \in Cen |-> ncp_unchanged])]
                    IN  IF loc.iter + 1 <= cfg.maxiter
                        THEN Store(OptraEnter(g1, n), loc.iter + 1, loc.ifault, 0)
                             /\ pc' = "optra"
                        ELSE Store(g1, loc.iter + 1, loc.ifault, loc.obs)
                             /\ pc' = "hw_ret"
       IN  IF h.icoun = n THEN Back(h)
           ELSE IF h1.istep >= h1.imaxqtr THEN Back([h1 EXCEPT !.imaxqtr = -1])
           ELSE Store(h1, loc.iter, loc.ifault, (loc.obs + 1) % n) /\ pc' = "qtran"
    /\ UNCHANGED <<algo, ndim, data, ncenters, cfg, details, run, entry, prev>>

\* HartiganWong::run after its loop, were it to leave ifault as it is when
\* the iterations have run out
HartiganWongReturn_unreported ==
    /\ algo = "HartiganWong" /\ pc = "hw_ret"
    /\ \E cs \in {compute_centroids(ndim, nobs, data, ncenters, clusters, self.nc)} :
           /\ centers' = cs
           /\ details' = Details4(self.nc,
                                  compute_wcss(ndim, nobs, data, ncenters, cs, clusters),
                                  loc.iter, loc.ifault)
    /\ self' = [self EXCEPT !.nc = <<>>]
    /\ pc' = "done"
    /\ UNCHANGED <<algo, ndim, data, ncenters, clusters, cfg, loc, run, entry, prev>>

\* HartiganWong::run after its loop, were the test for the exhausted
\* iterations off by one (iter == maxiter)
HartiganWongReturn_early ==
    /\ algo = "HartiganWong" /\ pc = "hw_ret"
    /\ \E cs \in {compute_centroids(ndim, nobs, data, ncenters, clusters, self.nc)} :
           /\ centers' = cs
           /\ details' = Details4(self.nc,
                                  compute_wcss(ndim, nobs, data, ncenters, cs, clusters),
                                  loc.iter,
                                  IF loc.iter = cfg.maxiter THEN 2 ELSE loc.ifault)
    /\ self' = [self EXCEPT !.nc = <<>>]
    /\ pc' = "done"
    /\ UNCHANGED <<algo, ndim, data, ncenters, clusters, cfg, loc, run, entry, prev>>

\* HartiganWong::run after its loop
HartiganWongReturn ==
    /\ algo = "HartiganWong" /\ pc = "hw_ret"
    /\ \E cs \in {compute_centroids(ndim, nobs, data, ncenters, clusters, self.nc)} :
           /\ centers' = cs
           /\ details' = Details4(self.nc,
                                  compute_wcss(ndim, nobs, data, ncenters, cs, clusters),
                                  loc.iter,
                                  IF loc.iter = cfg.maxiter + 1 THEN 2 ELSE loc.ifault)
    /\ self' = [self EXCEPT !.nc = <<>>]      \* std::move(nc)
    /\ pc' = "done"
    /\ UNCHANGED <<algo, ndim, data, ncenters, clusters, cfg, loc, run, entry, prev>>

(***************************************************************************)
(* aarand.hpp, random.hpp                                                  *)
(***************************************************************************)
\* eng is the list of the outputs the engine has still to give
standard_uniform(eng) == Rat(Head(eng), 1000000)

\* the loop of the sample, were it to count the indices down from the last
RECURSIVE SampleFrom_descending(_, _, _, _, _)
SampleFrom_descending(population, choose, sofar, traversed, eng) ==
    IF Len(sofar) >= choose THEN [sofar |-> sofar, eng |-> eng]
    ELSE SampleFrom_descending(population, choose,
                    IF RLt(RMul(R(population - traversed), standard_uniform(eng)),
                           R(choose - Len(sofar)))
                    THEN Append(sofar, population - 1 - traversed) ELSE sofar,
                    traversed + 1, Tail(eng))

\* [sofar, eng]: the sample in ascending order, and the engine afterwards
RECURSIVE SampleFrom(_, _, _, _, _)
SampleFrom(population, choose, sofar, traversed, eng) ==
    IF Len(sofar) >= choose THEN [sofar |-> sofar, eng |-> eng]
    ELSE SampleFrom(population, choose,
                    IF RLt(RMul(R(population - traversed), standard_uniform(eng)),
                           R(choose - Len(sofar)))
                    THEN Append(sofar, traversed) ELSE sofar,
                    traversed + 1, Tail(eng))

RECURSIVE Iota(_, _)
Iota(from, n) == IF from >= n THEN <<>> ELSE <<from>> \o Iota(from + 1, n)

\* choose is a size_t: a negative argument arrives as a value above every
\* population
sample_without_replacement(population, choose, eng) ==
    IF choose < 0 \/ choose >= population
    THEN [sofar |-> Iota(0, population), eng |-> eng]
    ELSE SampleFrom(population, choose, <<>>, 0, eng)

(***************************************************************************)
(* MiniBatch.hpp                                                           *)
(***************************************************************************)
\* the update of the means, were its step to shrink with the position in
\* the batch and not with the count of the cluster
RECURSIVE UpdateMeans_batch(_, _, _, _, _)
UpdateMeans_batch(m, dt, cl, chosen, i) ==
    IF i > Len(chosen) THEN m
    ELSE LET o == chosen[i]
             c == cl[o]
             n == m.total_sampled[c] + 1
             x == Vec(dt[o])
             ccopy == Force([d \in DOMAIN x |->
                         RAdd(m.centers[c][d],
                              RDiv(RSub(x[d], m.centers[c][d]), R(i)))])
         IN  UpdateMeans_batch([centers |-> [m.centers EXCEPT ![c] = ccopy],
                          total_sampled |-> [m.total_sampled EXCEPT ![c] = n]],
                         dt, cl, chosen, i + 1)

\* the loop "Updating the means for each cluster" from chosen[i] on:
\* m = [centers, total_sampled]
RECURSIVE UpdateMeans(_, _, _, _, _)
UpdateMeans(m, dt, cl, chosen, i) ==
    IF i > Len(chosen) THEN m
    ELSE LET o == chosen[i]
             c == cl[o]
             n == m.total_sampled[c] + 1
             x == Vec(dt[o])
             ccopy == Force([d \in DOMAIN x |->
                         RAdd(m.centers[c][d],
                              RDiv(RSub(x[d], m.centers[c][d]), R(n)))])
         IN  UpdateMeans([centers |-> [m.centers EXCEPT ![c] = ccopy],
                          total_sampled |-> [m.total_sampled EXCEPT ![c] = n]],
                         dt, cl, chosen, i + 1)

\* the loop "Checking for updates" from chosen[i] on:
\* u = [last_sampled, last_changed]
RECURSIVE CountUpdates(_, _, _, _, _)
CountUpdates(u, previous, cl, chosen, i) ==
    IF i > Len(chosen) THEN u
    ELSE LET o  == chosen[i]
             p  == previous[o]
             c  == cl[o]
             s1 == [u.last_sampled EXCEPT ![p] = @ + 1]
         IN  CountUpdates(
               IF p # c
               THEN [last_sampled |-> [s1 EXCEPT ![c] = @ + 1],
                     last_changed |-> [[u.last_changed EXCEPT ![p] = @ + 1]
                                          EXCEPT ![c] = @ + 1]]
               ELSE [last_sampled |-> s1, last_changed |-> u.last_changed],
               previous, cl, chosen, i + 1)

\* MiniBatch::run up to the first test of the loop condition
MiniBatchRun ==
    /\ algo = "MiniBatch" /\ pc = "call"
    /\ entry' = [centers |-> centers, clusters |-> clusters]
    /\ IF is_edge_case(nobs, ncenters)
       THEN ReturnEdge /\ UNCHANGED loc
       ELSE /\ loc' = [iter |-> 1, status |-> 0,
                       total_sampled |-> [c \in Cen |-> 0],
                       previous |-> [o \in Obs |-> 0],
                       last_changed |-> [c \in Cen |-> 0],
                       last_sampled |-> [c \in Cen |-> 0],
                       eng |-> Mt19937_64_uniform]
            /\ pc' = IF 1 <= cfg.maxiter THEN "mb_loop" ELSE "mb_ret"
            /\ UNCHANGED <<centers, clusters, details>>
    /\ UNCHANGED <<algo, ndim, data, ncenters, cfg, self, run, prev>>

\* one iteration of the loop of MiniBatch::run
MiniBatchIterate ==
    /\ algo = "MiniBatch" /\ pc = "mb_loop"
    /\ LET iter == loc.iter
           actual_batch_size == IF cfg.batch_size < nobs THEN cfg.batch_size ELSE nobs
       IN
       \E s \in {sample_without_replacement(nobs, actual_batch_size, loc.eng)} :
       \E index \in {QuickSearch(ncenters, centers)} :
       \E cl \in {Force([o \in Obs |->
                     IF \E i \in DOMAIN s.sofar : s.sofar[i] = o
                     THEN find(Vec(data[o]), index, centers) ELSE clusters[o]])} :
       \E m \in {UpdateMeans([centers |-> centers, total_sampled |-> loc.total_sampled],
                              data, cl, s.sofar, 1)} :
       LET chosen   == s.sofar
           previous == IF iter > 1
                       THEN Force([o \in Obs |->
                                IF \E i \in DOMAIN chosen : chosen[i] = o
                                THEN clusters[o] ELSE loc.previous[o]])
                       ELSE loc.previous
           u == IF iter # 1
                THEN CountUpdates([last_sampled |-> loc.last_sampled,
                                   last_changed |-> loc.last_changed],
                                  previous, cl, chosen, 1)
                ELSE [last_sampled |-> loc.last_sampled, last_changed |-> loc.last_changed]
           test == iter # 1 /\ iter % cfg.history = 1
           too_many_changes ==
               \E c \in Cen : RLe(RMul(R(u.last_sampled[c]), cfg.max_change),
                                  R(u.last_changed[c]))
           l1 == [loc EXCEPT !.total_sampled = m.total_sampled,
                             !.previous = previous,
                             !.last_sampled = u.last_sampled,
                             !.last_changed = u.last_changed,
                             !.eng = s.eng]
       IN  /\ clusters' = cl
           /\ centers' = m.centers
           /\ IF test /\ ~too_many_changes
              THEN loc' = l1 /\ pc' = "mb_ret"
              ELSE /\ loc' = [l1 EXCEPT !.iter = iter + 1,
                                        !.last_sampled =
                                            IF test THEN [c \in Cen |-> 0] ELSE @,
                                        !.last_changed =
                                            IF test THEN [c \in Cen |-> 0] ELSE @]
                   /\ pc' = IF iter + 1 <= cfg.maxiter THEN "mb_loop" ELSE "mb_ret"
    /\ UNCHANGED <<algo, ndim, data, ncenters, cfg, self, details, run, entry, prev>>

\* MiniBatch::run after the loop, were the exhausted budget to go before
\* the empty cluster in the status
MiniBatchReturn_budget ==
    /\ algo = "MiniBatch" /\ pc = "mb_ret"
    /\ \E index \in {QuickSearch(ncenters, centers)} :
       \E cl \in {Force([o \in Obs |-> find(Vec(data[o]), index, centers)])} :
       \E total_sampled \in {Force([c \in Cen |-> Count(cl, nobs, c)])} :
       \E cs \in {compute_centroids(ndim, nobs, data, ncenters, cl, total_sampled)} :
           /\ clusters' = cl
           /\ centers' = cs
           /\ details' = Details4(total_sampled,
                                  compute_wcss(ndim, nobs, data, ncenters, cs, cl),
                                  loc.iter,
                                  IF loc.iter = cfg.maxiter + 1 THEN 2
                                  ELSE IF \E c \in Cen : total_sampled[c] = 0 THEN 1
                                  ELSE loc.status)
    /\ pc' = "done"
    /\ UNCHANGED <<algo, ndim, data, ncenters, cfg, self, loc, run, entry, prev>>

\* MiniBatch::run after the loop
MiniBatchReturn ==
    /\ algo = "MiniBatch" /\ pc = "mb_ret"
    /\ \E index \in {QuickSearch(ncenters, centers)} :
       \E cl \in {Force([o \in Obs |-> find(Vec(data[o]), index, centers)])} :
       \E total_sampled \in {Force([c \in Cen |-> Count(cl, nobs, c)])} :
       \E cs \in {compute_centroids(ndim, nobs, data, ncenters, cl, total_sampled)} :
           /\ clusters' = cl
           /\ centers' = cs
           /\ details' = Details4(total_sampled,
                                  compute_wcss(ndim, nobs, data, ncenters, cs, cl),
                                  loc.iter,
                                  IF \E c \in Cen : total_sampled[c] = 0 THEN 1
                                  ELSE IF loc.iter = cfg.maxiter + 1 THEN 2
                                  ELSE loc.status)
    /\ pc' = "done"
    /\ UNCHANGED <<algo, ndim, data, ncenters, cfg, self, loc, run, entry, prev>>

(***************************************************************************)
(* InitializeNone.hpp, InitializeRandom.hpp                                *)
(***************************************************************************)
\* std::mt19937_64 eng(6523), the default seed of the initializers, as the
\* values aarand::standard_uniform makes of its first outputs, in millionths
\* rounded down.  No value is within two millionths of a ratio p/q with
\* q <= 16.
Mt19937_64_6523_uniform ==
    <<380778, 647057, 548984, 197632, 634089, 623246, 706940, 720932,
      73013, 789698, 911997, 414667, 306545, 643137, 815384, 465044>>

\* std::mt19937_64 eng(seed), for the two seeds of the model
Engine(seed) == IF seed = 6523 THEN Mt19937_64_6523_uniform ELSE Mt19937_64_uniform

\* what an initializer returns: the number of centers it has filled
Filled_t(r) == [returned |-> r]

\* the centers buffer after copy_into_array(chosen, ndim, data, centers)
copy_into_array(chosen, dt, out) ==
    Force([cen \in DOMAIN out |->
              IF cen < Len(chosen) THEN Vec(dt[chosen[cen + 1]]) ELSE out[cen]])

InitializeNoneRun ==
    /\ algo = "InitializeNone" /\ pc = "call"
    /\ entry' = [centers |-> centers, clusters |-> clusters]
    /\ details' = Filled_t(IF nobs < ncenters THEN nobs ELSE ncenters)
    /\ pc' = "done"
    /\ UNCHANGED <<algo, ndim, data, ncenters, centers, clusters, cfg, self, loc,
                   run, prev>>

\* run() of an InitializeRandom that keeps one engine for all its runs
\* instead of making a new one from the seed in each
InitializeRandomRun_member ==
    /\ algo = "InitializeRandom" /\ pc = "call"
    /\ entry' = [centers |-> centers, clusters |-> clusters]
    /\ \E s \in {sample_without_replacement(nobs, ncenters,
                      IF self = None THEN Engine(cfg.seed) ELSE self.eng)} :
         /\ centers' = copy_into_array(s.sofar, data, centers)
         /\ details' = Filled_t(Len(s.sofar))
         /\ self' = [eng |-> s.eng]
    /\ pc' = "done"
    /\ UNCHANGED <<algo, ndim, data, ncenters, clusters, cfg, loc, run, prev>>

InitializeRandomRun ==
    /\ algo = "InitializeRandom" /\ pc = "call"
    /\ entry' = [centers |-> centers, clusters |-> clusters]
    /\ \E s \in {sample_without_replacement(nobs, ncenters, Engine(cfg.seed))} :
         /\ centers' = copy_into_array(s.sofar, data, centers)
         /\ details' = Filled_t(Len(s.sofar))
    /\ pc' = "done"
    /\ UNCHANGED <<algo, ndim, data, ncenters, clusters, cfg, self, loc, run, prev>>

(***************************************************************************)
(* InitializeKmeansPP.hpp                                                  *)
(***************************************************************************)
\* cumulative[obs] = mindist[0] + ... + mindist[obs]
RECURSIVE CumulativeAt(_, _)
CumulativeAt(mindist, obs) ==
    IF obs = 0 THEN mindist[0] ELSE RAdd(CumulativeAt(mindist, obs - 1), mindist[obs])

\* std::lower_bound over the whole of cumulative: the first position whose
\* element is not less than w, or n
lower_bound(cumulative, n, w) ==
    LET hits == {i \in 0..(n - 1) : ~RLt(cumulative[i], w)}
    IN  IF hits = {} THEN n ELSE CHOOSE i \in hits : \A j \in hits : i <= j

\* [chosen_id, eng]
RECURSIVE weighted_sample(_, _, _, _)
weighted_sample(cumulative, mindist, n, eng) ==
    LET total          == cumulative[n - 1]
        sampled_weight == RMul(total, standard_uniform(eng))
        chosen_id      == lower_bound(cumulative, n, sampled_weight)
    IN  IF chosen_id = n \/ mindist[chosen_id] = Zero
        THEN weighted_sample(cumulative, mindist, n, Tail(eng))
        ELSE [chosen_id |-> chosen_id, eng |-> Tail(eng)]

\* mindist, were it the distance to the center chosen last alone
UpdateMindist_last(mindist, dt, n, cen, last) ==
    Force([obs \in 0..(n - 1) |-> raw_distance(Vec(dt[obs]), Vec(dt[last]))])

\* mindist after the loop over the observations for the center chosen last
UpdateMindist(mindist, dt, n, cen, last) ==
    Force([obs \in 0..(n - 1) |->
              IF mindist[obs] # Zero
              THEN LET r2 == raw_distance(Vec(dt[obs]), Vec(dt[last]))
                   IN  IF cen = 1 \/ RLt(r2, mindist[obs]) THEN r2 ELSE mindist[obs]
              ELSE mindist[obs]])

\* run(ndim, nobs, data, ncenters, centers, clusters) up to the loop of the
\* inner run(ndim, nobs, data, ncenters)
InitializeKmeansPPRun ==
    /\ algo = "InitializeKmeansPP" /\ pc = "call"
    /\ entry' = [centers |-> centers, clusters |-> clusters]
    /\ IF nobs = 0
       THEN details' = Filled_t(0) /\ pc' = "done" /\ UNCHANGED loc
       ELSE /\ loc' = [mindist |-> [obs \in Obs |-> R(1)], sofar |-> <<>>,
                       eng |-> Engine(cfg.seed), cen |-> 0]
            /\ pc' = IF 0 < ncenters THEN "kpp_loop" ELSE "kpp_ret"
            /\ UNCHANGED details
    /\ UNCHANGED <<algo, ndim, data, ncenters, centers, clusters, cfg, self, run, prev>>

\* one iteration of the loop over cen
InitializeKmeansPPChoose ==
    /\ algo = "InitializeKmeansPP" /\ pc = "kpp_loop"
    /\ \E mindist \in {IF loc.sofar # <<>>
                       THEN UpdateMindist(loc.mindist, data, nobs, loc.cen,
                                          loc.sofar[Len(loc.sofar)])
                       ELSE loc.mindist} :
       \E cumulative \in {Force([obs \in Obs |-> CumulativeAt(mindist, obs)])} :
         IF cumulative[nobs - 1] = Zero
         THEN /\ loc' = [loc EXCEPT !.mindist = mindist]
              /\ pc' = "kpp_ret"
         ELSE \E w \in {weighted_sample(cumulative, mindist, nobs, loc.eng)} :
              /\ loc' = [mindist |-> [mindist EXCEPT ![w.chosen_id] = Zero],
                         sofar |-> Append(loc.sofar, w.chosen_id),
                         eng |-> w.eng, cen |-> loc.cen + 1]
              /\ pc' = IF loc.cen + 1 < ncenters THEN "kpp_loop" ELSE "kpp_ret"
    /\ UNCHANGED <<algo, ndim, data, ncenters, centers, clusters, cfg, self, details,
                   run, entry, prev>>

\* the outer run() after the inner one has returned sofar
InitializeKmeansPPReturn ==
    /\ algo = "InitializeKmeansPP" /\ pc = "kpp_ret"
    /\ centers' = copy_into_array(loc.sofar, data, centers)
    /\ details' = Filled_t(Len(loc.sofar))
    /\ pc' = "done"
    /\ UNCHANGED <<algo, ndim, data, ncenters, clusters, cfg, self, loc, run, entry, prev>>

(***************************************************************************)
(* InitializePCAPartition.hpp, powerit/PowerIterations.hpp                 *)
(***************************************************************************)
\* sum over the observations chosen[from..] of dt[obs][dim]
RECURSIVE SumChosen(_, _, _, _)
SumChosen(dt, chosen, dim, from) ==
    IF from > Len(chosen) THEN 0
    ELSE dt[chosen[from]][dim] + SumChosen(dt, chosen, dim, from + 1)

\* compute_center(ndim, chosen, data, center); chosen is not empty
compute_center(nd, chosen, dt) ==
    [dim \in 1..nd |-> Rat(SumChosen(dt, chosen, dim, 1), Len(chosen))]

\* sum over the observations chosen[from..] of the squared distance to center
RECURSIVE SumSqChosen(_, _, _, _)
SumSqChosen(dt, chosen, center, from) ==
    IF from > Len(chosen) THEN Zero
    ELSE RAdd(raw_distance(Vec(dt[chosen[from]]), center),
              SumSqChosen(dt, chosen, center, from + 1))

\* [center, mrse]: the center that update_mrse writes and the value it returns
update_mrse(nd, chosen, dt) ==
    LET center == compute_center(nd, chosen, dt)
    IN  [center |-> center,
         mrse |-> RDiv(SumSqChosen(dt, chosen, center, 1), R(Len(chosen)))]

\* aarand::standard_normal(eng).first, as its sign: sqrt(-2 log u1) is
\* positive and sin(2 pi u2) is positive exactly for u2 < 1/2 (no value of
\* the streams is 0 or 1/2).  The call takes two values from the engine.
standard_normal(eng) ==
    [sign |-> IF 2 * eng[2] < 1000000 THEN 1 ELSE -1, eng |-> Tail(Tail(eng))]

\* PowerIterations::run for order 1, x = (cov): the starting vector is one
\* normal value, which normalize makes 1 or -1.  With cov > 0 the first
\* product normalizes to the same vector and the loop stops; with cov = 0
\* the product is 0, normalize leaves it, and output becomes 0.
PowerIterations_run(cov, eng) ==
    LET s == standard_normal(eng)
    IN  [output |-> IF cov = Zero THEN <<Zero>> ELSE <<R(s.sign)>>, eng |-> s.eng]

\* compute_pc1 in one dimension: [output, eng]
compute_pc1(chosen, dt, center, eng) ==
    PowerIterations_run(SumSqChosen(dt, chosen, center, 1), eng)

\* the cluster (below cluster) that the loop over i finds worst, from i on
RECURSIVE WorstCluster(_, _, _, _, _, _)
WorstCluster(mrse, assignments, cluster, i, worst_ss, worst_cluster) ==
    IF i >= cluster THEN worst_cluster
    ELSE LET pseudo_ss == RMul(mrse[i], R(Len(assignments[i])))
         IN  IF RLt(worst_ss, pseudo_ss)
             THEN WorstCluster(mrse, assignments, cluster, i + 1, pseudo_ss, i)
             ELSE WorstCluster(mrse, assignments, cluster, i + 1, worst_ss, worst_cluster)

\* the observations of chosen, in order, whose projection on pc1 is positive
\* (side = TRUE) or not (side = FALSE)
Positive(dt, obs, center, pc1) ==
    RLt(Zero, RMul(RSub(R(dt[obs][1]), center[1]), pc1[1]))
Side(dt, chosen, center, pc1, side) ==
    SelectSeq(chosen, LAMBDA obs : Positive(dt, obs, center, pc1) = side)

\* run() up to the loop over cluster
InitializePCAPartitionRun ==
    /\ algo = "InitializePCAPartition" /\ pc = "call"
    /\ entry' = [centers |-> centers, clusters |-> clusters]
    /\ IF nobs = 0
       THEN /\ details' = Filled_t(0) /\ pc' = "done"
            /\ UNCHANGED <<centers, clusters, loc>>
       ELSE IF ncenters = 0
       \* assignments is empty: assignments[0] is a reference at the null
       \* address, and resize() reads its members through it
       THEN /\ pc' = "crashed"
            /\ UNCHANGED <<centers, clusters, loc, details>>
       ELSE /\ centers' = [centers EXCEPT ![0] = compute_center(ndim, Iota(0, nobs), data)]
            /\ clusters' = [obs \in Obs |-> 0]
            /\ loc' = [mrse |-> [c \in Cen |-> Zero],
                       assignments |-> [c \in Cen |-> IF c = 0 THEN Iota(0, nobs) ELSE <<>>],
                       eng |-> Engine(cfg.seed), cluster |-> 1]
            /\ pc' = IF 1 < ncenters THEN "pca_loop" ELSE "pca_ret"
            /\ UNCHANGED details
    /\ UNCHANGED <<algo, ndim, data, ncenters, cfg, self, run, prev>>

\* one iteration of the loop over cluster, were it to leave the center of
\* the cluster it splits as it was
InitializePCAPartitionSplit_stale ==
    /\ algo = "InitializePCAPartition" /\ pc = "pca_loop"
    /\ \E worst_cluster \in {WorstCluster(loc.mrse, loc.assignments, loc.cluster, 0, Zero, 0)} :
       \E p \in {compute_pc1(loc.assignments[worst_cluster], data, centers[worst_cluster],
                             loc.eng)} :
       \E new_assignments \in {Side(data, loc.assignments[worst_cluster],
                                    centers[worst_cluster], p.output, TRUE)} :
       \E worst_assignments2 \in {Side(data, loc.assignments[worst_cluster],
                                       centers[worst_cluster], p.output, FALSE)} :
         IF new_assignments = <<>> \/ worst_assignments2 = <<>>
         THEN /\ details' = Filled_t(loc.cluster)
              /\ loc' = [loc EXCEPT !.eng = p.eng,
                                    !.assignments[loc.cluster] = new_assignments]
              /\ pc' = "done"
              /\ UNCHANGED <<centers, clusters>>
         ELSE \E new \in {update_mrse(ndim, new_assignments, data)} :
              \E worst \in {update_mrse(ndim, worst_assignments2, data)} :
              /\ clusters' = [obs \in Obs |->
                                IF \E i \in DOMAIN new_assignments : new_assignments[i] = obs
                                THEN loc.cluster ELSE clusters[obs]]
              /\ centers' = [centers EXCEPT ![loc.cluster] = new.center]
              /\ loc' = [mrse |-> [loc.mrse EXCEPT ![loc.cluster] = new.mrse,
                                                   ![worst_cluster] = worst.mrse],
                         assignments |-> [loc.assignments EXCEPT
                                             ![loc.cluster] = new_assignments,
                                             ![worst_cluster] = worst_assignments2],
                         eng |-> p.eng, cluster |-> loc.cluster + 1]
              /\ pc' = IF loc.cluster + 1 < ncenters THEN "pca_loop" ELSE "pca_ret"
              /\ UNCHANGED details
    /\ UNCHANGED <<algo, ndim, data, ncenters, cfg, self, run, entry, prev>>

\* one iteration of the loop over cluster
InitializePCAPartitionSplit ==
    /\ algo = "InitializePCAPartition" /\ pc = "pca_loop"
    /\ \E worst_cluster \in {WorstCluster(loc.mrse, loc.assignments, loc.cluster, 0, Zero, 0)} :
       \E p \in {compute_pc1(loc.assignments[worst_cluster], data, centers[worst_cluster],
                             loc.eng)} :
       \E new_assignments \in {Side(data, loc.assignments[worst_cluster],
                                    centers[worst_cluster], p.output, TRUE)} :
       \E worst_assignments2 \in {Side(data, loc.assignments[worst_cluster],
                                       centers[worst_cluster], p.output, FALSE)} :
         IF new_assignments = <<>> \/ worst_assignments2 = <<>>
         THEN /\ details' = Filled_t(loc.cluster)
              /\ loc' = [loc EXCEPT !.eng = p.eng,
                                    !.assignments[loc.cluster] = new_assignments]
              /\ pc' = "done"
              /\ UNCHANGED <<centers, clusters>>
         ELSE \E new \in {update_mrse(ndim, new_assignments, data)} :
              \E worst \in {update_mrse(ndim, worst_assignments2, data)} :
              /\ clusters' = [obs \in Obs |->
                                IF \E i \in DOMAIN new_assignments : new_assignments[i] = obs
                                THEN loc.cluster ELSE clusters[obs]]
              /\ centers' = [centers EXCEPT ![loc.cluster] = new.center,
                                            ![worst_cluster] = worst.center]
              /\ loc' = [mrse |-> [loc.mrse EXCEPT ![loc.cluster] = new.mrse,
                                                   ![worst_cluster] = worst.mrse],
                         assignments |-> [loc.assignments EXCEPT
                                             ![loc.cluster] = new_assignments,
                                             ![worst_cluster] = worst_assignments2],
                         eng |-> p.eng, cluster |-> loc.cluster + 1]
              /\ pc' = IF loc.cluster + 1 < ncenters THEN "pca_loop" ELSE "pca_ret"
              /\ UNCHANGED details
    /\ UNCHANGED <<algo, ndim, data, ncenters, cfg, self, run, entry, prev>>

\* return ncenters
InitializePCAPartitionReturn ==
    /\ algo = "InitializePCAPartition" /\ pc = "pca_ret"
    /\ details' = Filled_t(ncenters)
    /\ pc' = "done"
    /\ UNCHANGED <<algo, ndim, data, ncenters, centers, clusters, cfg, self, loc,
                   run, entry, prev>>

(***************************************************************************)
(* QuickSearch.hpp: the class in use                                       *)
(***************************************************************************)
\* the constructor, over the ncenters points of centers
QuickSearchNew ==
    /\ algo = "QuickSearch" /\ pc = "call"
    /\ self' = [nodes |-> QuickSearch(ncenters, centers)]
    /\ pc' = "built"
    /\ UNCHANGED <<algo, ndim, data, ncenters, centers, clusters, cfg, loc, details,
                   run, entry, prev>>

\* find_with_distance(query), for one of the query points in data
QuickSearchFind ==
    /\ algo = "QuickSearch" /\ pc = "built"
    /\ \E obs \in Obs :
         loc' = [query |-> data[obs],
                 found |-> find_with_distance(Vec(data[obs]), self.nodes, centers)]
    /\ pc' = "found"
    /\ UNCHANGED <<algo, ndim, data, ncenters, centers, clusters, cfg, self, details,
                   run, entry, prev>>

(***************************************************************************)
(* The caller                                                              *)
(***************************************************************************)
\* what the caller has after a call: how it ended, what it returned and the
\* two buffers
Result == [outcome |-> pc, details |-> details, centers |-> centers, clusters |-> clusters]

\* the caller runs the same strategy object again on the buffers it got back
Rerun ==
    /\ pc = "done" /\ run < MaxRuns
    /\ prev' = [result |-> Result, entry |-> entry, how |-> "output"]
    /\ run' = run + 1
    /\ pc' = "call"
    /\ UNCHANGED <<algo, ndim, data, ncenters, centers, clusters, cfg, self, loc,
                   details, entry>>

\* the caller runs the same strategy object again on buffers holding what it
\* passed to the call before, also after catching what that call threw
Replay ==
    /\ pc \in {"done", "thrown"} /\ run < MaxRuns
    /\ prev' = [result |-> Result, entry |-> entry, how |-> "entry"]
    /\ centers' = entry.centers
    /\ clusters' = entry.clusters
    /\ run' = run + 1
    /\ pc' = "call"
    /\ UNCHANGED <<algo, ndim, data, ncenters, cfg, self, loc, details, entry>>

\* the caller runs the same refiner again on the centers it passed to the
\* call before and on a clusters buffer filled with another label
Refill ==
    /\ pc = "done" /\ run < MaxRuns /\ algo \in Refiners
    /\ prev' = [result |-> Result, entry |-> entry, how |-> "refilled"]
    /\ centers' = entry.centers
    /\ \E c \in 0..(IF ncenters > 1 THEN ncenters - 1 ELSE 0) :
         /\ clusters' = [obs \in Obs |-> c]
         /\ clusters' # entry.clusters
    /\ run' = run + 1
    /\ pc' = "call"
    /\ UNCHANGED <<algo, ndim, data, ncenters, cfg, self, loc, details, entry>>

(***************************************************************************)
(* Kmeans.hpp                                                              *)
(***************************************************************************)
\* Kmeans::run called with an initializer and a refiner: cfg.refiner names
\* the class of the Refine object
Orchestrated == "refiner" \in DOMAIN cfg

\* the second half of Kmeans::run, were it to hand the refiner the requested
\* ncenters instead of the count the initializer returned
KmeansRefine_requested ==
    /\ Orchestrated /\ pc = "done" /\ algo \in Initializers
    /\ prev' = [result |-> Result, entry |-> entry, how |-> "initialized",
                requested |-> ncenters]
    /\ algo' = cfg.refiner
    /\ self' = IF cfg.refiner = "HartiganWong" THEN NewHartiganWong ELSE None
    /\ loc' = None
    /\ details' = None
    /\ pc' = "call"
    /\ UNCHANGED <<ndim, data, ncenters, centers, clusters, cfg, run, entry>>

\* Kmeans::run between the return of initializer->run and the call of
\* refiner->run: ncenters becomes what the initializer returned, and the
\* refiner gets the centers buffer as that many columns.  prev keeps the
\* whole buffer and the ncenters that the caller asked for.
KmeansRefine ==
    /\ Orchestrated /\ pc = "done" /\ algo \in Initializers
    /\ prev' = [result |-> Result, entry |-> entry, how |-> "initialized",
                requested |-> ncenters]
    /\ algo' = cfg.refiner
    /\ ncenters' = details.returned
    /\ centers' = [cen \in 0..(details.returned - 1) |-> centers[cen]]
    /\ self' = IF cfg.refiner = "HartiganWong" THEN NewHartiganWong ELSE None
    /\ loc' = None
    /\ details' = None
    /\ pc' = "call"
    /\ UNCHANGED <<ndim, data, clusters, cfg, run, entry>>

(***************************************************************************)
(* Inputs                                                                  *)
(***************************************************************************)
Coord == 0..MaxCoord

\* one-dimensional datasets of n observations
Data1(n) == {[obs \in 0..(n - 1) |-> <<x[obs]>>] : x \in [0..(n - 1) -> Coord]}

\* the ascending lists of n values of S
Ascending(S, n) == {x \in [0..(n - 1) -> S] : \A i \in 0..(n - 2) : x[i] <= x[i + 1]}

\* centers buffers of k columns with integer coordinates; for the calls that
\* take the shortcut, the zero-filled one
ZeroCenters(k) == [cen \in 0..(k - 1) |-> <<Zero>>]
CentersMB(n, k) ==
    IF is_edge_case(n, k) THEN {ZeroCenters(k)}
    ELSE {[cen \in 0..(k - 1) |-> <<R(x[cen])>>] : x \in [0..(k - 1) -> 0..MaxCenter]}

\* clusters buffers filled with one label: 0, as a std::vector<CLUSTER_t>(nobs)
\* starts, or any other label below k
Labels(k) == 0..(IF k > 1 THEN k - 1 ELSE 0)
Filled(n, k) == {[obs \in 0..(n - 1) |-> c] : c \in Labels(k)}

NoPrev == [result |-> None, entry |-> None, how |-> "none"]

Fresh ==
    /\ pc = "call" /\ run = 1
    /\ loc = None /\ details = None /\ entry = None /\ prev = NoPrev

\* Lloyd: ascending datasets, ascending centers, and a clusters buffer
\* filled with one label
LloydArgs(al, nd, dt, nc, cs, cl, cf, sf) ==
    /\ al = "Lloyd" /\ nd = 1 /\ sf = None
    /\ \E n \in 0..MaxObsLloyd :
         /\ dt \in {[obs \in 0..(n - 1) |-> <<x[obs]>>] :
                       x \in Ascending(0..MaxCoordLloyd, n)}
         /\ nc \in -1..(n + 1)
         /\ cl \in Filled(n, nc)
         /\ cs \in IF is_edge_case(n, nc) THEN {ZeroCenters(nc)}
                    ELSE {[cen \in 0..(nc - 1) |-> <<R(x[cen])>>] :
                             x \in Ascending(0..MaxCoordLloyd, nc)}
    /\ \E m \in 0..MaxIter : cf = [maxiter |-> m]

InitLloyd ==
    Fresh /\ LloydArgs(algo, ndim, data, ncenters, centers, clusters, cfg, self)

NextLloyd == LloydRun \/ LloydIterate \/ LloydReturn \/ Rerun \/ Replay

SpecLloyd == InitLloyd /\ [][NextLloyd]_vars

\* ascending datasets over the wider range 0 .. MaxCoordHW, where the
\* quick-transfer pass has transfers to make; the centers are at observations,
\* where InitializeNone, InitializeRandom and InitializeKmeansPP put them
DataHW(n) == {[obs \in 0..(n - 1) |-> <<x[obs]>>] : x \in Ascending(0..MaxCoordHW, n)}
CentersHW(d, n, k) ==
    IF is_edge_case(n, k) THEN {ZeroCenters(k)}
    ELSE {[cen \in 0..(k - 1) |-> <<R(d[x[cen]][1])>>] : x \in [0..(k - 1) -> 0..(n - 1)]}

HartiganWongArgs(al, nd, dt, nc, cs, cl, cf, sf) ==
    /\ al = "HartiganWong" /\ nd = 1 /\ sf = NewHartiganWong
    /\ \E n \in 0..MaxObsHW :
         /\ dt \in DataHW(n)
         /\ nc \in -1..(n + 1)
         /\ cl \in Filled(n, 1)
         /\ cs \in CentersHW(dt, n, nc)
    /\ \E m \in 0..MaxIter : cf = [maxiter |-> m]

InitHartiganWong ==
    Fresh /\ HartiganWongArgs(algo, ndim, data, ncenters, centers, clusters, cfg, self)

NextHartiganWong ==
    HartiganWongRun \/ OptimalTransferStep \/ QuickTransferStep \/ HartiganWongReturn
    \/ Rerun \/ Replay

SpecHartiganWong == InitHartiganWong /\ [][NextHartiganWong]_vars

\* HartiganWong on datasets of MaxObsLive observations with four centres at
\* observations of ascending index, as InitializeRandom picks them, and
\* max_iterations 3: among these are runs in which a second optimal-
\* transfer pass follows a quick-transfer stage that has made transfers,
\* with some clusters live and others not
InitHartiganWongLive ==
    /\ Fresh /\ algo = "HartiganWong" /\ ndim = 1 /\ self = NewHartiganWong
    /\ data \in {[obs \in 0..(MaxObsLive - 1) |-> <<x[obs]>>] :
                    x \in Ascending(0..MaxCoordLive, MaxObsLive)}
    /\ ncenters = 4
    /\ clusters \in Filled(MaxObsLive, 1)
    /\ centers \in {[cen \in 0..3 |-> <<R(data[x[cen]][1])>>] :
                       x \in {y \in [0..3 -> 0..(MaxObsLive - 1)] :
                                 \A cen \in 0..2 : y[cen] < y[cen + 1]}}
    /\ cfg = [maxiter |-> 3]

SpecHartiganWongLive == InitHartiganWongLive /\ [][NextHartiganWong]_vars

\* every dataset: MiniBatch samples the observations by position
MiniBatchArgs(al, nd, dt, nc, cs, cl, cf, sf) ==
    /\ al = "MiniBatch" /\ nd = 1 /\ sf = None
    /\ \E n \in 0..MaxObs :
         /\ dt \in Data1(n)
         /\ nc \in -1..(n + 1)
         /\ cl \in Filled(n, 1)
         /\ cs \in CentersMB(n, nc)
    /\ \E m \in 0..MaxIterMB, b \in MinBatch..MaxObs, h \in 1..MaxHistory :
         cf = [maxiter |-> m, batch_size |-> b, history |-> h,
               max_change |-> Rat(1, 100)]

InitMiniBatch ==
    Fresh /\ MiniBatchArgs(algo, ndim, data, ncenters, centers, clusters, cfg, self)

NextMiniBatch == MiniBatchRun \/ MiniBatchIterate \/ MiniBatchReturn \/ Rerun \/ Replay

SpecMiniBatch == InitMiniBatch /\ [][NextMiniBatch]_vars

\* QuickSearch over every list of up to MaxRef points of the plane, or of up
\* to MaxRef + 1 points of the line, with every point as a query
Points(nd) == [1..nd -> Coord]
InitQuickSearch ==
    /\ algo = "QuickSearch" /\ Fresh /\ self = None /\ cfg = None
    /\ ndim \in 1..2
    /\ data = [obs \in 0..(Cardinality(Points(ndim)) - 1) |->
                 <<obs % (MaxCoord + 1)>> \o
                 (IF ndim = 2 THEN <<obs \div (MaxCoord + 1)>> ELSE <<>>)]
    /\ \E n \in 1..(MaxRef + 2 - ndim) :
         /\ ncenters = n
         /\ centers \in [0..(n - 1) -> {Vec(p) : p \in Points(ndim)}]
    /\ clusters = <<>>

NextQuickSearch == QuickSearchNew \/ QuickSearchFind

SpecQuickSearch == InitQuickSearch /\ [][NextQuickSearch]_vars

\* the initializers: every dataset, a centers buffer whose columns hold a
\* value that no observation has, a clusters buffer filled with one value.
\* A negative ncenters is given with no observations only: with observations
\* InitializeRandom copies all of them into a centers buffer that has no
\* columns.
Seeds == {6523, 1234567890}
Untouched(k) == [cen \in 0..(k - 1) |-> <<R(-1)>>]
InitializeArgs(al, nd, dt, nc, cs, cl, cf, sf) ==
    /\ al \in Initializers /\ nd = 1 /\ sf = None
    /\ \E n \in 0..MaxObs :
         /\ dt \in Data1(n)
         /\ nc \in (IF n = 0 THEN -1 ELSE 0)..(n + 1)
         /\ cl \in Filled(n, MaxObs)
         /\ cs = Untouched(nc)
    /\ \E s \in Seeds : cf = [seed |-> s]

InitInitialize ==
    Fresh /\ InitializeArgs(algo, ndim, data, ncenters, centers, clusters, cfg, self)

NextInitialize ==
    \/ InitializeNoneRun \/ InitializeRandomRun
    \/ InitializeKmeansPPRun \/ InitializeKmeansPPChoose \/ InitializeKmeansPPReturn
    \/ InitializePCAPartitionRun \/ InitializePCAPartitionSplit
    \/ InitializePCAPartitionReturn
    \/ Rerun \/ Replay

SpecInitialize == InitInitialize /\ [][NextInitialize]_vars

\* the values that aarand::standard_uniform can give, in millionths: the
\* least, the greatest, and some between
Draws == {0, 250000, 500000, 999999}

\* sample_without_replacement by itself: every population, every choose,
\* and an engine that gives every list of draws
InitSample ==
    /\ Fresh /\ algo = "sample_without_replacement" /\ ndim = 1
    /\ data = <<>> /\ ncenters = 0 /\ centers = <<>> /\ clusters = <<>>
    /\ self = None
    /\ \E population \in 0..MaxPopulation, choose \in 0..MaxChoose :
       \E eng \in [1..MaxPopulation -> Draws] :
           cfg = [population |-> population, choose |-> choose, eng |-> eng]

\* a call of sample_without_replacement
SampleRun ==
    /\ algo = "sample_without_replacement" /\ pc = "call"
    /\ details' = sample_without_replacement(cfg.population, cfg.choose, cfg.eng)
    /\ pc' = "done"
    /\ UNCHANGED <<algo, ndim, data, ncenters, centers, clusters, cfg, self, loc,
                   run, entry, prev>>

SpecSample == InitSample /\ [][SampleRun]_vars

\* Lloyd with its default max_iterations on two groups of three points in the
\* plane, the centers at one point of each group, in either order, and every
\* content of the clusters buffer
max_iterations == 10
TwoGroups ==
    [obs \in 0..5 |-> <<<<0, 0>>, <<0, 1>>, <<1, 0>>, <<10, 10>>, <<10, 11>>, <<11, 10>>>>[obs + 1]]
InitScenario ==
    /\ algo = "Lloyd" /\ ndim = 2 /\ Fresh /\ self = None
    /\ data = TwoGroups
    /\ ncenters = 2
    /\ \E a \in 0..2, b \in 3..5 :
         centers \in {[cen \in 0..1 |-> Vec(data[IF cen = 0 THEN a ELSE b])],
                      [cen \in 0..1 |-> Vec(data[IF cen = 0 THEN b ELSE a])]}
    /\ clusters \in [0..5 -> 0..1]
    /\ cfg = [maxiter |-> max_iterations]

NextScenario == LloydRun \/ LloydIterate \/ LloydReturn

SpecScenario == InitScenario /\ [][NextScenario]_vars

\* the three refiners, each run a second time on the same centers and
\* another content of the clusters buffer
InitRefill == InitLloyd \/ InitHartiganWong \/ InitMiniBatch

NextRefill ==
    \/ LloydRun \/ LloydIterate \/ LloydReturn
    \/ HartiganWongRun \/ OptimalTransferStep \/ QuickTransferStep \/ HartiganWongReturn
    \/ MiniBatchRun \/ MiniBatchIterate \/ MiniBatchReturn
    \/ Refill

SpecRefill == InitRefill /\ [][NextRefill]_vars

\* Kmeans::run with every initializer and every refiner, on every dataset of
\* up to MaxObs observations and on the ascending ones of HartiganWong; the
\* refiners with max_iterations = MaxIter, and MiniBatch with the smallest
\* batch and the longest history of the model
InitKmeans ==
    /\ algo \in Initializers /\ ndim = 1 /\ Fresh /\ self = None
    /\ \E n \in 0..MaxObsHW :
         /\ data \in IF n <= MaxObs THEN Data1(n) ELSE DataHW(n)
         /\ ncenters \in (IF n = 0 THEN -1 ELSE 0)..(n + 1)
         /\ clusters = [obs \in 0..(n - 1) |-> 0]
         /\ centers = Untouched(ncenters)
    /\ \E s \in Seeds, r \in Refiners :
         cfg = [seed |-> s, refiner |-> r, maxiter |-> MaxIter,
                batch_size |-> MinBatch, history |-> MaxHistory,
                max_change |-> Rat(1, 100)]

NextKmeans ==
    \/ InitializeNoneRun \/ InitializeRandomRun
    \/ InitializeKmeansPPRun \/ InitializeKmeansPPChoose \/ InitializeKmeansPPReturn
    \/ InitializePCAPartitionRun \/ InitializePCAPartitionSplit
    \/ InitializePCAPartitionReturn
    \/ KmeansRefine
    \/ LloydRun \/ LloydIterate \/ LloydReturn
    \/ HartiganWongRun \/ OptimalTransferStep \/ QuickTransferStep \/ HartiganWongReturn
    \/ MiniBatchRun \/ MiniBatchIterate \/ MiniBatchReturn

SpecKmeans == InitKmeans /\ [][NextKmeans]_vars

\* the initializers and the three refinement strategies together
Init == InitLloyd \/ InitHartiganWong \/ InitMiniBatch \/ InitInitialize

Next ==
    \/ LloydRun \/ LloydIterate \/ LloydReturn
    \/ HartiganWongRun \/ OptimalTransferStep \/ QuickTransferStep \/ HartiganWongReturn
    \/ MiniBatchRun \/ MiniBatchIterate \/ MiniBatchReturn
    \/ InitializeNoneRun \/ InitializeRandomRun
    \/ InitializeKmeansPPRun \/ InitializeKmeansPPChoose \/ InitializeKmeansPPReturn
    \/ InitializePCAPartitionRun \/ InitializePCAPartitionSplit
    \/ InitializePCAPartitionReturn
    \/ Rerun \/ Replay

Spec == Init /\ [][Next]_vars

\* one call of run() of any strategy, from its entry to its end: the thread
\* that runs it is never suspended for ever, so its next step is always taken
NextCall ==
    \/ LloydRun \/ LloydIterate \/ LloydReturn
    \/ HartiganWongRun \/ OptimalTransferStep \/ QuickTransferStep \/ HartiganWongReturn
    \/ MiniBatchRun \/ MiniBatchIterate \/ MiniBatchReturn
    \/ InitializeNoneRun \/ InitializeRandomRun
    \/ InitializeKmeansPPRun \/ InitializeKmeansPPChoose \/ InitializeKmeansPPReturn
    \/ InitializePCAPartitionRun \/ InitializePCAPartitionSplit
    \/ InitializePCAPartitionReturn

\* the caller before it has built its arguments and its strategy object
InitCaller ==
    /\ pc = "caller" /\ algo = "none" /\ ndim = 1 /\ data = <<>> /\ ncenters = 0
    /\ centers = <<>> /\ clusters = <<>> /\ cfg = None /\ self = None
    /\ run = 1 /\ loc = None /\ details = None /\ entry = None /\ prev = NoPrev

\* the caller builds them and calls run()
Call ==
    /\ pc = "caller"
    /\ \/ LloydArgs(algo', ndim', data', ncenters', centers', clusters', cfg', self')
       \/ HartiganWongArgs(algo', ndim', data', ncenters', centers', clusters', cfg',
                           self')
       \/ MiniBatchArgs(algo', ndim', data', ncenters', centers', clusters', cfg', self')
       \/ InitializeArgs(algo', ndim', data', ncenters', centers', clusters', cfg', self')
    /\ pc' = "call"
    /\ UNCHANGED <<loc, details, run, entry, prev>>

\* a call that has been entered and has not ended: exactly the states in
\* which a step of NextCall is enabled
Running == pc \notin {"caller", "done", "thrown", "crashed"}

\* WF_vars(NextCall), its ENABLED written as Running
Scheduled == []<>(~Running) \/ []<><<NextCall>>_vars

SpecCall == InitCaller /\ [][Call \/ NextCall]_vars /\ Scheduled

(***************************************************************************)
(* subpar/range.hpp, subpar/simple.hpp: the scheme built on <thread>.      *)
(* cfg holds the arguments: num_workers, num_tasks, and the tasks at which *)
(* the callback throws. The callback counts every task it is given in the  *)
(* output slot of that task (clusters) and throws at the first task of     *)
(* cfg.throwing it comes to. sanisizer's comparisons and casts are the     *)
(* comparisons of the integers.                                            *)
(***************************************************************************)
MaxWorkers == 5
MaxTasks == 4

Dispatchers == {"parallelize_range", "parallelize_simple"}

sanitize_num_workers(num_workers, num_tasks) ==
    IF num_workers <= 0 THEN (IF num_tasks > 0 THEN 1 ELSE 0)
    ELSE IF num_workers < num_tasks THEN num_workers ELSE num_tasks

\* run_task_range(w, start, length) called by the calling thread itself: what
\* it throws leaves the dispatcher at once
CallInline(w, start, length) ==
    LET hit   == {t \in start..(start + length - 1) : t \in cfg.throwing}
        first == IF hit = {} THEN start + length
                 ELSE CHOOSE t \in hit : \A u \in hit : t <= u
    IN  /\ clusters' = [t \in DOMAIN clusters |->
                           IF start <= t /\ t < first THEN clusters[t] + 1 ELSE clusters[t]]
        /\ loc' = [num_workers |-> 0, tasks_per_worker |-> 0, remainder |-> 0,
                   errors |-> <<>>, start |-> 0, w |-> 0, workers |-> <<>>, joined |-> 0,
                   calls |-> {[w |-> w, start |-> start, length |-> length]}]
        /\ IF hit = {}
           THEN pc' = "done" /\ UNCHANGED details
           ELSE pc' = "thrown" /\ details' = [task |-> first]

\* the locals before the first thread is made
Dispatch(num_workers, tasks_per_worker, remainder) ==
    /\ loc' = [num_workers |-> num_workers, tasks_per_worker |-> tasks_per_worker,
               remainder |-> remainder,
               errors |-> [w \in 0..(num_workers - 1) |-> None],
               start |-> 0, w |-> 0, workers |-> <<>>, joined |-> 0, calls |-> {}]
    /\ pc' = "spawn"
    /\ UNCHANGED <<clusters, details>>

\* parallelize_range up to the loop that makes the threads
ParallelizeRangeRun ==
    /\ algo = "parallelize_range" /\ pc = "call"
    /\ LET num_workers == cfg.num_workers
           num_tasks   == cfg.num_tasks
       IN  IF num_tasks = 0
           THEN pc' = "done" /\ UNCHANGED <<clusters, loc, details>>
           ELSE IF num_workers <= 1 \/ num_tasks = 1
           THEN CallInline(0, 0, num_tasks)
           ELSE IF num_workers >= num_tasks
           THEN Dispatch(num_tasks, 1, 0)
           ELSE Dispatch(num_workers, num_tasks \div num_workers, num_tasks % num_workers)
    /\ UNCHANGED <<algo, ndim, data, ncenters, centers, cfg, self, run, entry, prev>>

\* parallelize_simple up to the loop that makes the threads: one thread for
\* each task
ParallelizeSimpleRun ==
    /\ algo = "parallelize_simple" /\ pc = "call"
    /\ LET num_tasks == cfg.num_tasks
       IN  IF num_tasks = 0
           THEN pc' = "done" /\ UNCHANGED <<clusters, loc, details>>
           ELSE IF num_tasks = 1
           THEN CallInline(0, 0, 1)
           ELSE Dispatch(num_tasks, 1, 0)
    /\ UNCHANGED <<algo, ndim, data, ncenters, centers, cfg, self, run, entry, prev>>

\* the loop over w, were it to give no worker an extra task
Spawn_even ==
    /\ algo \in Dispatchers /\ pc = "spawn"
    /\ LET w      == loc.w
           length == loc.tasks_per_worker
       IN  /\ loc' = [loc EXCEPT
                        !.workers = Append(@, [w |-> w, start |-> loc.start,
                                               length |-> length, at |-> 0,
                                               finished |-> length = 0]),
                        !.calls = @ \cup {[w |-> w, start |-> loc.start,
                                           length |-> length]},
                        !.start = @ + length,
                        !.w = w + 1]
           /\ pc' = IF w + 1 < loc.num_workers THEN "spawn" ELSE "join"
    /\ UNCHANGED <<algo, ndim, data, ncenters, centers, clusters, cfg, self, details,
                   run, entry, prev>>

\* one iteration of the loop over w: workers.emplace_back(...); start += length
Spawn ==
    /\ algo \in Dispatchers /\ pc = "spawn"
    /\ LET w      == loc.w
           length == loc.tasks_per_worker + (IF w < loc.remainder THEN 1 ELSE 0)
       IN  /\ loc' = [loc EXCEPT
                        !.workers = Append(@, [w |-> w, start |-> loc.start,
                                               length |-> length, at |-> 0,
                                               finished |-> length = 0]),
                        !.calls = @ \cup {[w |-> w, start |-> loc.start,
                                           length |-> length]},
                        !.start = @ + length,
                        !.w = w + 1]
           /\ pc' = IF w + 1 < loc.num_workers THEN "spawn" ELSE "join"
    /\ UNCHANGED <<algo, ndim, data, ncenters, centers, clusters, cfg, self, details,
                   run, entry, prev>>

\* a thread that has been made takes the next task of its range; what the
\* callback throws is caught in the thread and kept in errors[w]
WorkerStep ==
    /\ algo \in Dispatchers /\ pc \in {"spawn", "join"}
    /\ \E i \in DOMAIN loc.workers :
         LET t    == loc.workers[i]
             task == t.start + t.at
         IN  /\ ~t.finished
             /\ IF task \in cfg.throwing
                THEN /\ loc' = [loc EXCEPT !.workers[i].finished = TRUE,
                                           !.errors[t.w] = [task |-> task]]
                     /\ UNCHANGED clusters
                ELSE /\ clusters' = [clusters EXCEPT ![task] = @ + 1]
                     /\ loc' = [loc EXCEPT !.workers[i].at = @ + 1,
                                           !.workers[i].finished = (t.at + 1 = t.length)]
    /\ UNCHANGED <<algo, pc, ndim, data, ncenters, centers, cfg, self, details,
                   run, entry, prev>>

\* the loop over workers, were join() to return before the thread has
\* finished
Join_nowait ==
    /\ algo \in Dispatchers /\ pc = "join"
    /\ loc' = [loc EXCEPT !.joined = @ + 1]
    /\ pc' = IF loc.joined + 1 < Len(loc.workers) THEN "join" ELSE "rethrow"
    /\ UNCHANGED <<algo, ndim, data, ncenters, centers, clusters, cfg, self, details,
                   run, entry, prev>>

\* one iteration of the loop over workers: wrk.join() returns when the
\* thread has finished
Join ==
    /\ algo \in Dispatchers /\ pc = "join"
    /\ loc.workers[loc.joined + 1].finished
    /\ loc' = [loc EXCEPT !.joined = @ + 1]
    /\ pc' = IF loc.joined + 1 < Len(loc.workers) THEN "join" ELSE "rethrow"
    /\ UNCHANGED <<algo, ndim, data, ncenters, centers, clusters, cfg, self, details,
                   run, entry, prev>>

\* the loop over errors: the first one that is set is thrown again
Rethrow ==
    /\ algo \in Dispatchers /\ pc = "rethrow"
    /\ LET set == {w \in DOMAIN loc.errors : loc.errors[w] # None}
       IN  IF set = {}
           THEN pc' = "done" /\ UNCHANGED details
           ELSE /\ details' = loc.errors[CHOOSE w \in set : \A v \in set : w <= v]
                /\ pc' = "thrown"
    /\ UNCHANGED <<algo, ndim, data, ncenters, centers, clusters, cfg, self, loc,
                   run, entry, prev>>

\* every worker count from a negative one to more than the tasks, every
\* number of tasks, every set of tasks at which the callback throws
InitParallel ==
    /\ algo \in Dispatchers /\ pc = "call"
    /\ \E num_tasks \in 0..MaxTasks :
         /\ \E num_workers \in (IF algo = "parallelize_range" THEN -1 ELSE 0)
                               ..(IF algo = "parallelize_range" THEN MaxWorkers ELSE 0) :
            \E throwing \in SUBSET (0..(num_tasks - 1)) :
              cfg = [num_workers |-> num_workers, num_tasks |-> num_tasks,
                     throwing |-> throwing]
         /\ clusters = [t \in 0..(num_tasks - 1) |-> 0]
    /\ ndim = 1 /\ data = <<>> /\ ncenters = 0 /\ centers = <<>> /\ self = None
    /\ run = 1 /\ loc = None /\ details = None /\ entry = None /\ prev = NoPrev

NextParallel ==
    ParallelizeRangeRun \/ ParallelizeSimpleRun \/ Spawn \/ WorkerStep \/ Join \/ Rethrow

SpecParallel == InitParallel /\ [][NextParallel]_vars

(***************************************************************************)
(* Properties                                                              *)
(***************************************************************************)
\* a refiner has returned its Details
Returned == pc = "done" /\ algo \in Refiners

\* the observations that the clusters buffer puts in cluster c
Members(c) == {obs \in Obs : clusters[obs] = c}

RECURSIVE SumOver(_, _)
SumOver(S, dim) ==
    IF S = {} THEN 0
    ELSE LET obs == CHOOSE o \in S : TRUE
         IN  data[obs][dim] + SumOver(S \ {obs}, dim)

\* the arithmetic mean of the observations in S (S not empty)
MeanOf(S) == [dim \in 1..ndim |-> Rat(SumOver(S, dim), Cardinality(S))]

RECURSIVE SumSizes(_, _)
SumSizes(sizes, c) == IF c \notin DOMAIN sizes THEN 0 ELSE sizes[c] + SumSizes(sizes, c + 1)

\* C1: a refinement call on nobs > 0 that returns status 0 returns sizes
\* that sum to nobs and are all positive, and withinss that are all >= 0.
C1_SuccessfulSizes ==
    (Returned /\ nobs > 0 /\ details.status = 0) =>
        /\ DOMAIN details.sizes = Cen
        /\ SumSizes(details.sizes, 0) = nobs
        /\ \A c \in Cen : details.sizes[c] > 0
        /\ \A c \in DOMAIN details.withinss : RLe(Zero, details.withinss[c])

\* C2: after a refinement run that returns status 0, the centroid of every
\* non-empty cluster is the mean of the observations the returned clusters
\* buffer places in it.
C2_CentroidIsMean ==
    (Returned /\ details.status = 0) =>
        \A c \in Cen : Members(c) # {} => centers[c] = MeanOf(Members(c))

RECURSIVE SumSqOver(_, _)
SumSqOver(S, dim) ==
    IF S = {} THEN 0
    ELSE LET obs == CHOOSE o \in S : TRUE
         IN  data[obs][dim] * data[obs][dim] + SumSqOver(S \ {obs}, dim)

RECURSIVE Factorial(_)
Factorial(n) == IF n <= 1 THEN 1 ELSE n * Factorial(n - 1)

\* nobs! times the sum of squares of cluster c about its exact mean, in
\* dimensions dim and above: sum(x^2) - sum(x)^2 / size
RECURSIVE ClusterSS(_, _)
ClusterSS(c, dim) ==
    IF dim > ndim \/ Members(c) = {} THEN 0
    ELSE Factorial(nobs) * SumSqOver(Members(c), dim)
         - (Factorial(nobs) \div Cardinality(Members(c)))
             * SumOver(Members(c), dim) * SumOver(Members(c), dim)
         + ClusterSS(c, dim + 1)

\* nobs! times the total within-cluster sum of squares about the exact means
\* of the clusters that the clusters buffer describes
RECURSIVE TotalFrom(_)
TotalFrom(c) == IF c >= ncenters THEN 0 ELSE ClusterSS(c, 1) + TotalFrom(c + 1)
TotalWCSS == TotalFrom(0)

\* C3: every transfer of an observation by the optimal-transfer pass or the
\* quick-transfer pass leaves the total within-cluster sum of squares at
\* most what it was just before.
C3_TransferMonotone ==
    [][(algo = "HartiganWong" /\ pc \in {"optra", "qtran"} /\ clusters' # clusters)
          => TotalWCSS' <= TotalWCSS]_vars

\* the quick-transfer pass has just moved an observation, after the
\* optimal-transfer pass had moved one
C3_Witness ==
    /\ algo = "HartiganWong" /\ pc = "qtran"
    /\ loc.icoun = 0 /\ loc.istep > 0

\* the minimum over the reference points of the squared distance to the query
IsNearest(c, q) ==
    \A o \in Cen : RLe(raw_distance(centers[c], Vec(q)), raw_distance(centers[o], Vec(q)))

\* C4: find(query) on the tree built over N >= 1 reference points returns an
\* index whose distance to the query is the minimum over all N points.
C4_FindIsNearest ==
    (algo = "QuickSearch" /\ pc = "found") =>
        /\ loc.found.closest \in Cen
        /\ IsNearest(loc.found.closest, loc.query)

\* the one nearest point lies inside the root's ball, in its left subtree
C4_Witness ==
    /\ algo = "QuickSearch" /\ pc = "found" /\ ncenters >= 4
    /\ self.nodes[1].left # LEAF_MARKER
    /\ loc.found.closest = self.nodes[self.nodes[1].left + 1].index
    /\ \A o \in Cen \ {loc.found.closest} : ~IsNearest(o, loc.query)

\* C5: a second run of the same initializer or refiner, on the same strategy
\* object, with the same data, ncenters and seed and with the centers and
\* clusters buffers as they were on entry to the first run, ends as the first
\* run did: the same return value and the same centers and clusters.
C5_Deterministic ==
    (pc \in {"done", "thrown"} /\ prev.how = "entry") => Result = prev.result

\* the second run of a HartiganWong object whose first run made transfers
\* and left its work arrays filled
C5_Witness ==
    /\ pc = "done" /\ prev.how = "entry" /\ algo = "HartiganWong"
    /\ ~is_edge_case(nobs, ncenters)
    /\ details.status = 0
    /\ clusters # [obs \in Obs |-> 0]
    /\ centers # entry.centers

\* C6: with ncenters == 1 and nobs >= 1, each of HartiganWong, Lloyd and
\* MiniBatch puts every observation in cluster 0, makes centroid 0 the mean
\* of all observations, reports sizes == [nobs] and returns status 0.
C6_OneCenter ==
    (Returned /\ ncenters = 1 /\ nobs >= 1) =>
        /\ \A obs \in Obs : clusters[obs] = 0
        /\ centers[0] = MeanOf(Obs)
        /\ details.sizes = [c \in {0} |-> nobs]
        /\ details.status = 0

\* one center for observations that are not all the same
C6_Witness ==
    /\ Returned /\ algo = "HartiganWong" /\ ncenters = 1 /\ nobs = MaxObs
    /\ \E obs \in Obs : data[obs] # data[0]

\* C7: with ncenters >= nobs, observation i is in cluster i and is that
\* cluster's centroid, the clusters beyond nobs have size 0, and the status
\* is 3 if and only if ncenters > nobs, and 0 otherwise.
C7_Singletons ==
    (Returned /\ ncenters >= nobs) =>
        /\ \A obs \in Obs : clusters[obs] = obs /\ centers[obs] = Vec(data[obs])
        /\ DOMAIN details.sizes = Cen
        /\ \A c \in Cen : details.sizes[c] = IF c < nobs THEN 1 ELSE 0
        /\ details.status = IF ncenters > nobs THEN 3 ELSE 0

\* the call that has returned was made on the buffers as a run of refiner a
\* that returned status 0 had left them
RerunOnConverged(a) ==
    /\ Returned /\ algo = a /\ prev.how = "output"
    /\ prev.result.details.status = 0

Unchanged == centers = prev.result.centers /\ clusters = prev.result.clusters

\* C8 as stated: a second Lloyd run on what a status-0 Lloyd run returned
\* leaves centers and clusters unchanged and returns iterations == 1 and
\* status 0.
C8_LloydRerunOneIteration ==
    RerunOnConverged("Lloyd") =>
        Unchanged /\ details.iterations = 1 /\ details.status = 0

\* C8 amended: the same, with iterations == 1 unless the call takes the
\* edge-case shortcut (ncenters <= 1 or ncenters >= nobs), where it is 0.
C8_LloydRerun ==
    RerunOnConverged("Lloyd") =>
        /\ Unchanged
        /\ details.iterations = IF is_edge_case(nobs, ncenters) THEN 0 ELSE 1
        /\ details.status = 0

\* the first run took two iterations and changed the clusters buffer
C8_Witness ==
    /\ RerunOnConverged("Lloyd") /\ ~is_edge_case(nobs, ncenters)
    /\ prev.result.details.iterations = 2
    /\ prev.result.clusters # prev.entry.clusters

\* C9: a second MiniBatch run on what a status-0 MiniBatch run returned
\* leaves centers and clusters unchanged and returns status 0.  (The
\* iteration count that the claim adds is left out: the formula already
\* fails on the buffers.)
C9_MiniBatchRerun ==
    RerunOnConverged("MiniBatch") => Unchanged /\ details.status = 0

\* C10: on the two groups of three points, with ncenters = 2 and the initial
\* centers at one point of each group, Lloyd returns iterations <= 2 and
\* status 0, the first three points in one cluster and the last three in
\* the other, and the centroids (1/3, 1/3) and (31/3, 31/3).
C10_TwoGroups ==
    (Returned /\ algo = "Lloyd" /\ data = TwoGroups) =>
        /\ details.iterations <= 2 /\ details.status = 0
        /\ clusters[0] = clusters[1] /\ clusters[1] = clusters[2]
        /\ clusters[3] = clusters[4] /\ clusters[4] = clusters[5]
        /\ clusters[0] # clusters[3]
        /\ centers[clusters[0]] = <<Rat(1, 3), Rat(1, 3)>>
        /\ centers[clusters[3]] = <<Rat(31, 3), Rat(31, 3)>>

\* C11: two runs of a refiner that differ only in what the clusters buffer
\* holds on entry return the same Details and leave the same centers and
\* clusters.
C11_EntryClustersIgnored ==
    (Returned /\ prev.how = "refilled") => Result = prev.result

\* an initializer has returned its count
Initialized == pc = "done" /\ algo \in Initializers

\* C12: with nobs == 0 every initializer returns 0 and leaves the centers
\* and clusters buffers as they were, for every requested ncenters.
C12_NoObservations ==
    (Initialized /\ nobs = 0) =>
        /\ details.returned = 0
        /\ centers = entry.centers /\ clusters = entry.clusters

\* C13: a call of Kmeans::run with nobs == 0 does not run a refiner and
\* does not return a Details value with status 0.
C13_NoObservationsRejected ==
    (Orchestrated /\ nobs = 0) =>
        /\ algo \notin Refiners
        /\ ~(Returned /\ details.status = 0)


\* C14: a refine call whose configuration is wrong (ncenters <= 0) ends in a
\* thrown error and never in a returned status code, and it leaves the
\* centers and clusters buffers as they were passed.
C14_ConfigErrorsThrown ==
    (algo \in Refiners /\ ncenters <= 0 /\ pc # "call")
        => /\ pc = "thrown"
           /\ centers = entry.centers
           /\ clusters = entry.clusters

\* C15: a refine call with ncenters <= 0 returns through the edge-case
\* shortcut: a non-zero status, no iterations, and empty sizes and withinss.
C15_NoCentersFatal ==
    (algo \in Refiners /\ ncenters <= 0 /\ pc # "call")
        => /\ pc = "done"
           /\ details.status # 0
           /\ details.iterations = 0
           /\ details.sizes = <<>>
           /\ details.withinss = <<>>

\* the call has ended: it returned, it threw, or the process was killed
Ended == pc \in {"done", "thrown", "crashed"}

\* the loops of the refiners stay within their budgets
WithinBudget ==
    /\ (algo = "Lloyd" /\ pc = "lloyd_loop") => loc.iter <= cfg.maxiter
    /\ (algo = "MiniBatch" /\ pc = "mb_loop") => loc.iter <= cfg.maxiter
    /\ (algo = "HartiganWong" /\ pc \in {"optra", "qtran"}) =>
           /\ loc.iter <= cfg.maxiter
           /\ loc.obs < nobs
           /\ loc.istep < 50 * nobs

\* the run ended because the iterations or the quick-transfer steps ran out
BudgetRanOut ==
    /\ Returned /\ loc # None
    /\ \/ loc.iter = cfg.maxiter + 1
       \/ algo = "HartiganWong" /\ loc.imaxqtr < 0

Dispatched == algo \in Dispatchers /\ pc \in {"done", "thrown"}

\* the calls of the callback that the dispatcher has made
Calls == IF loc = None THEN {} ELSE loc.calls

\* C17: parallelize_range, for every num_workers (zero, negative, more than
\* the tasks) and every num_tasks >= 0, calls the callback on non-empty
\* contiguous ranges inside [0, num_tasks) such that every task lies in
\* exactly one of them; no worker gets two ranges, and at most
\* min(max(num_workers, 1), num_tasks) workers get one, which is what
\* sanitize_num_workers returns. No task is ever processed twice, and every
\* task is processed once when the callback does not throw.
C17_RangesPartition ==
    /\ algo = "parallelize_range" => \A t \in DOMAIN clusters : clusters[t] <= 1
    /\ (Dispatched /\ algo = "parallelize_range") =>
         LET num_workers == cfg.num_workers
             num_tasks   == cfg.num_tasks
             atleast1    == IF num_workers > 1 THEN num_workers ELSE 1
             most        == IF atleast1 < num_tasks THEN atleast1 ELSE num_tasks
         IN  /\ \A c \in Calls :
                   /\ c.length > 0 /\ c.start >= 0 /\ c.start + c.length <= num_tasks
                   /\ c.w >= 0 /\ c.w < atleast1
             /\ \A t \in 0..(num_tasks - 1) :
                   Cardinality({c \in Calls : c.start <= t /\ t < c.start + c.length}) = 1
             /\ \A c, d \in Calls : c.w = d.w => c = d
             /\ Cardinality(Calls) <= most
             /\ sanitize_num_workers(num_workers, num_tasks) = most
             /\ cfg.throwing = {} => \A t \in 0..(num_tasks - 1) : clusters[t] = 1

\* fewer workers than tasks, and tasks left over for the first workers
C17_Witness ==
    /\ Dispatched /\ algo = "parallelize_range" /\ pc = "done" /\ loc # None
    /\ cfg.num_workers < cfg.num_tasks /\ loc.remainder > 0
    /\ Cardinality(Calls) = cfg.num_workers

\* the workers whose callback threw
Throwers == {w \in DOMAIN loc.errors : loc.errors[w] # None}

\* every thread that was made has finished and has been joined
AllJoined ==
    /\ Len(loc.workers) = loc.num_workers
    /\ loc.joined = Len(loc.workers)
    /\ \A i \in DOMAIN loc.workers : loc.workers[i].finished

\* C18 as stated: when the dispatcher has ended, every exception that a
\* worker's callback threw is the one thrown again on the calling thread.
C18_NoErrorDropped ==
    (Dispatched /\ loc # None) =>
        \A w \in Throwers : pc = "thrown" /\ details = loc.errors[w]

\* C18: when the dispatcher has ended, every thread has finished and has
\* been joined; it has thrown if and only if the callback threw at some task;
\* what it throws is the exception of the lowest-numbered worker that threw,
\* or, with the callback run by the calling thread, what that call threw.
C18_FirstErrorRethrown ==
    (Dispatched /\ loc # None) =>
        /\ AllJoined
        /\ pc = "thrown" <=> cfg.throwing # {}
        /\ \A i \in DOMAIN loc.workers :
              LET t == loc.workers[i]
              IN  t.w \in Throwers <=>
                      \E task \in t.start..(t.start + t.length - 1) : task \in cfg.throwing
        /\ pc = "thrown" =>
              /\ details.task \in cfg.throwing
              /\ Throwers # {} =>
                    details = loc.errors[CHOOSE w \in Throwers : \A v \in Throwers : w <= v]

\* two workers threw, all were joined, one exception was thrown again
C18_Witness ==
    /\ Dispatched /\ pc = "thrown" /\ loc # None
    /\ Cardinality(Throwers) >= 2 /\ AllJoined

\* C19: an initializer called with ncenters >= 0 returns a count r with
\* 0 <= r <= min(ncenters, nobs) and leaves every column of centers from r on
\* as it was; InitializeNone returns min(nobs, ncenters) and leaves centers
\* and clusters as they were.
C19_FilledColumns ==
    (algo \in Initializers /\ ncenters >= 0 /\ Ended) =>
        /\ pc = "done"
        /\ details.returned >= 0
        /\ details.returned <= ncenters /\ details.returned <= nobs
        /\ \A cen \in Cen : cen >= details.returned => centers[cen] = entry.centers[cen]
        /\ algo = "InitializeNone" =>
              /\ details.returned = (IF nobs < ncenters THEN nobs ELSE ncenters)
              /\ centers = entry.centers /\ clusters = entry.clusters

\* HartiganWong has found an empty cluster before its first iteration
EmptyAtStart ==
    algo = "HartiganWong" /\ details.status = 1 /\ details.iterations = 0

\* the number of clusters that the returned Details describes
NumSizes == Cardinality(DOMAIN details.sizes)

FoundRaw == raw_distance(centers[loc.found.closest], Vec(loc.query))

\* C21: find_with_distance(query) returns the index find(query) returns,
\* together with the Euclidean distance between the query and that
\* reference point: a finite tau whose square is the sum of the squared
\* coordinate differences.
C21_FindWithDistance ==
    (algo = "QuickSearch" /\ pc = "found") =>
        /\ loc.found.closest = find(Vec(loc.query), self.nodes, centers)
        /\ ~loc.found.tau.inf
        /\ loc.found.tau.sq = FoundRaw

\* C21 as stated: the distance returned is the squared Euclidean distance,
\* i.e. tau equals the raw distance, so that their squares are equal
C21_FindWithSquaredDistance ==
    (algo = "QuickSearch" /\ pc = "found") =>
        /\ loc.found.closest = find(Vec(loc.query), self.nodes, centers)
        /\ ~loc.found.tau.inf
        /\ loc.found.tau.sq = RMul(FoundRaw, FoundRaw)

\* a query at squared distance 2 from the nearest of several reference
\* points, found below the root of the tree
C21_Witness ==
    /\ algo = "QuickSearch" /\ pc = "found" /\ ncenters >= 3
    /\ loc.found.closest # self.nodes[1].index
    /\ loc.found.tau.sq = R(2)
    /\ FoundRaw = R(2)

(***************************************************************************)
(* Lloyd: the status of the no-change exit                                 *)
(***************************************************************************)
\* Lloyd::run has returned after leaving its loop through the break taken
\* when no observation changed cluster: the loop counter is then still
\* within max_iterations
LloydNoChangeExit ==
    /\ algo = "Lloyd" /\ pc = "done"
    /\ ~is_edge_case(nobs, ncenters)
    /\ loc.iter <= cfg.maxiter

LloydIterated ==
    /\ algo = "Lloyd" /\ pc = "done"
    /\ ~is_edge_case(nobs, ncenters)
    /\ cfg.maxiter >= 1

\* some pass of the loop gave a cluster no observation: a pass that counted
\* the sizes (status was set), or the last pass
LloydSawEmpty ==
    \/ loc.status = 1
    \/ \E c \in Cen : Count(clusters, nobs, c) = 0

\* C23: if in some Lloyd iteration a cluster receives no observation, the
\* Details returned has a non-zero status: 2 when the iterations have run
\* out, 1 otherwise.
C23_EmptyClusterFlagged ==
    (LloydIterated /\ LloydSawEmpty) =>
        details.status = (IF loc.iter = cfg.maxiter + 1 THEN 2 ELSE 1)

(***************************************************************************)
(* Lloyd and HartiganWong: the iteration count and status 2                *)
(***************************************************************************)
\* C24: a Lloyd or HartiganWong run with max_iterations >= 0 that does not
\* take the edge-case shortcut returns iterations <= max_iterations + 1,
\* and status 2 exactly when iterations = max_iterations + 1.
C24_IterationBudget ==
    (/\ algo \in {"Lloyd", "HartiganWong"} /\ pc = "done"
     /\ ~is_edge_case(nobs, ncenters)
     /\ cfg.maxiter >= 0) =>
        /\ details.iterations <= cfg.maxiter + 1
        /\ details.status = 2 <=> details.iterations = cfg.maxiter + 1

\* HartiganWong has gone through max_iterations >= 1 passes of both stages
\* without converging
C24_Witness ==
    /\ algo = "HartiganWong" /\ pc = "done"
    /\ ~is_edge_case(nobs, ncenters)
    /\ cfg.maxiter >= 1
    /\ details.iterations = cfg.maxiter + 1 /\ details.status = 2

(***************************************************************************)
(* HartiganWong: the quick-transfer stage                                  *)
(***************************************************************************)
\* inside quick_transfer: the steps made so far are fewer than the budget
\* of 50 * nobs, and fewer than nobs have passed since the last transfer
QuickTransferBudget ==
    (algo = "HartiganWong" /\ pc = "qtran") =>
        /\ loc.imaxqtr = 50 * nobs
        /\ loc.istep < 50 * nobs
        /\ loc.icoun < nobs

\* the stage was given up: status 4 is set, and returned
QuickTransferAbort ==
    (algo = "HartiganWong" /\ pc \in {"optra", "hw_ret", "done"} /\ loc # None) =>
        (loc.imaxqtr < 0 =>
            /\ pc # "optra" /\ loc.ifault = 4
            /\ pc = "done" => details.status = 4)

\* one step of quick_transfer: icoun counts the steps since the last
\* transfer; the stage is left either with icoun = nobs, or with the budget
\* used up, status 4 and the loop of run() left
QuickTransferLeave ==
    (algo = "HartiganWong" /\ pc = "qtran") =>
        /\ loc'.icoun = (IF clusters' # clusters THEN 0 ELSE loc.icoun + 1)
        /\ pc' = "qtran" => loc'.istep = loc.istep + 1 /\ loc'.icoun < nobs
        /\ pc' # "qtran" =>
             \/ loc'.icoun = nobs /\ loc'.imaxqtr = 50 * nobs /\ loc'.ifault = loc.ifault
             \/ /\ loc'.icoun < nobs /\ loc'.istep = 50 * nobs /\ loc'.imaxqtr < 0
                /\ loc'.ifault = 4 /\ pc' = "hw_ret"

NearestInitial(obs) ==
    CHOOSE c \in Cen :
        \A o \in Cen :
            LET dc == raw_distance(entry.centers[c], Vec(data[obs]))
                do == raw_distance(entry.centers[o], Vec(data[obs]))
            IN  RLe(dc, do) /\ (o < c => RLt(dc, do))

\* some cluster is nearest to no observation
SetupEmpty ==
    /\ ~is_edge_case(nobs, ncenters)
    /\ \E c \in Cen : \A obs \in Obs : NearestInitial(obs) # c

\* C26: HartiganWong returns status 1 exactly when the assignment of every
\* observation to its nearest initial centre leaves some cluster without
\* observations; it then returns that assignment with iterations 0, and the
\* optimal-transfer and quick-transfer stages are entered only when no
\* cluster was empty.
C26_EmptyAtSetup ==
    algo = "HartiganWong" =>
        /\ pc = "done" =>
             /\ details.status = 1 <=> SetupEmpty
             /\ details.status = 1 =>
                  /\ details.iterations = 0
                  /\ clusters = [obs \in Obs |-> NearestInitial(obs)]
        /\ pc \in {"optra", "qtran", "hw_ret"} => ~SetupEmpty

\* four observations and three centres, two of them at the same place and
\* one elsewhere: the second of the two gets no observation
C26_Witness ==
    /\ algo = "HartiganWong" /\ pc = "done"
    /\ nobs = 4 /\ ncenters = 3
    /\ \E c, o \in Cen : c < o /\ entry.centers[c] = entry.centers[o]
    /\ \E c, o \in Cen : entry.centers[c] # entry.centers[o]
    /\ details.status = 1 /\ details.iterations = 0
    /\ \E obs, other \in Obs : clusters[obs] # clusters[other]

(***************************************************************************)
(* HartiganWong with two centres                                           *)
(***************************************************************************)
\* a run with two centres, more than two observations and max_iterations
\* of at least 1
TwoCenters ==
    /\ algo = "HartiganWong"
    /\ ncenters = 2 /\ nobs > 2 /\ cfg.maxiter >= 1

\* the stages of such a run follow one another without a way back: the
\* optimal-transfer pass is entered from the setup only and goes through
\* the observations once, and the quick-transfer stage is entered from the
\* optimal-transfer pass only and is left for the end of run()
OnePassEach ==
    TwoCenters =>
        /\ pc' = "optra" =>
             \/ pc = "call"
             \/ pc = "optra" /\ loc'.obs = loc.obs + 1
        /\ pc' = "qtran" => pc \in {"optra", "qtran"}
        /\ pc = "qtran" => pc' \in {"qtran", "hw_ret"}

\* C27: with two centres HartiganWong runs the optimal-transfer pass at
\* most once and the quick-transfer stage at most once and never returns
\* status 2; it returns iterations 1, unless the setup has left a cluster
\* empty, where it returns iterations 0 and status 1.
C27_TwoCenters ==
    /\ [][OnePassEach]_vars
    /\ []((TwoCenters /\ pc = "done") =>
            /\ details.status # 2
            /\ details.iterations = (IF SetupEmpty THEN 0 ELSE 1))

\* C27 as stated: iterations is 1 on every such run
C27_TwoCentersOneIteration ==
    /\ [][OnePassEach]_vars
    /\ []((TwoCenters /\ pc = "done") =>
            /\ details.status # 2
            /\ details.iterations = 1)

\* a run with max_iterations 2 has returned after one pass of each stage,
\* the quick-transfer stage having made a transfer
C27_Witness ==
    /\ TwoCenters /\ pc = "done"
    /\ cfg.maxiter = 2
    /\ loc.icoun = nobs /\ loc.istep >= nobs
    /\ details.iterations = 1 /\ details.status = 0

(***************************************************************************)
(* HartiganWong: convergence of the optimal-transfer stage                 *)
(***************************************************************************)
\* indx is the number of optimal-transfer steps since the last transfer of
\* either stage: every optimal-transfer step adds one or, on a transfer,
\* sets it to 0; a quick transfer sets it to 0, and a quick-transfer step
\* without a transfer leaves it.  The run leaves the optimal-transfer
\* stage for its end exactly when indx reaches nobs.
CountsToConvergence ==
    /\ (algo = "HartiganWong" /\ pc = "optra") =>
         /\ loc'.indx = (IF clusters' # clusters THEN 0 ELSE loc.indx + 1)
         /\ pc' = "hw_ret" <=> loc'.indx = nobs
         /\ pc' = "hw_ret" => loc'.ifault = 0 /\ loc'.iter = loc.iter
    /\ (algo = "HartiganWong" /\ pc = "qtran") =>
         loc'.indx = (IF clusters' # clusters THEN 0 ELSE loc.indx)

\* the count stays below nobs while the stages run, so a pass that has made
\* no transfer does not go on to the quick-transfer stage; and the run that
\* ends with the count at nobs returns status 0
ConvergedClean ==
    algo = "HartiganWong" =>
        /\ pc \in {"optra", "qtran"} => loc.indx < nobs
        /\ (pc = "done" /\ loc # None /\ loc.indx = nobs) =>
             /\ details.status = 0
             /\ details.iterations \in 1..cfg.maxiter

\* C28: HartiganWong stops with status 0 as soon as nobs consecutive
\* optimal-transfer steps have made no transfer, the count being set back
\* to zero by every optimal transfer and every quick transfer; a full
\* optimal-transfer pass without a transfer ends the run with status 0.
C28_CleanConvergence ==
    /\ [][CountsToConvergence]_vars
    /\ []ConvergedClean

\* the run has converged in its second optimal-transfer pass, part of the
\* nobs steps without a transfer having been made in the first pass
C28_Witness ==
    /\ algo = "HartiganWong" /\ pc = "done" /\ loc # None
    /\ loc.indx = nobs /\ loc.obs < nobs - 1
    /\ details.iterations = 2 /\ details.status = 0

(***************************************************************************)
(* HartiganWong: the assignment and the counts                             *)
(***************************************************************************)
\* the run is past its setup: in one of the two stages, or between the
\* loop and the final compute_centroids
PastSetup == algo = "HartiganWong" /\ pc \in {"optra", "qtran", "hw_ret"}

\* C29: at every point of a HartiganWong run after the setup every
\* observation has one cluster ic1 in 0 .. ncenters - 1, nc[c] is the number
\* of observations with ic1 = c, the counts sum to nobs, and every count is
\* at least 1.
C29_CountsMatchAssignment ==
    PastSetup =>
        /\ DOMAIN clusters = Obs
        /\ \A obs \in Obs : clusters[obs] \in Cen
        /\ DOMAIN self.nc = Cen
        /\ \A c \in Cen : self.nc[c] = Cardinality({obs \in Obs : clusters[obs] = c})
        /\ SumSizes(self.nc, 0) = nobs
        /\ \A c \in Cen : self.nc[c] >= 1

\* after a transfer: the assignment is no longer the one of the setup, and
\* a cluster is down to one observation
C29_Witness ==
    /\ PastSetup
    /\ \E obs \in Obs : clusters[obs] # NearestInitial(obs)
    /\ \E c \in Cen : self.nc[c] = 1
    /\ \E c \in Cen : self.nc[c] >= 2

(***************************************************************************)
(* HartiganWong: the centres after a transfer                              *)
(***************************************************************************)
\* the observations that the assignment cl puts in cluster c
MembersIn(cl, c) == {obs \in Obs : cl[obs] = c}

\* a step that moves an observation: it moves one observation, from l1 to
\* l2; the new centres of l1 and l2 are the means of their new members; the
\* centres, counts and coefficients of every other cluster stay
TransferKeepsMeans ==
    (PastSetup /\ clusters' # clusters) =>
        \E obs \in Obs :
            LET l1 == clusters[obs]
                l2 == clusters'[obs]
            IN  /\ l1 # l2
                /\ \A o \in Obs \ {obs} : clusters'[o] = clusters[o]
                /\ centers'[l1] = MeanOf(MembersIn(clusters', l1))
                /\ centers'[l2] = MeanOf(MembersIn(clusters', l2))
                /\ \A c \in Cen \ {l1, l2} :
                     /\ centers'[c] = centers[c]
                     /\ self'.nc[c] = self.nc[c]
                     /\ self'.an1[c] = self.an1[c]
                     /\ self'.an2[c] = self.an2[c]

\* C30: after every transfer of an observation from l1 to l2 the updated
\* centres of l1 and l2 are the arithmetic means of their new member sets,
\* and the centres, counts and coefficients of all other clusters are
\* unchanged.
C30_TransferKeepsMeans == [][TransferKeepsMeans]_vars

\* an observation has been moved into a cluster that now has two or more
\* members, next to a third cluster that took no part
C30_Witness ==
    /\ PastSetup /\ ncenters = 3
    /\ \E obs \in Obs :
         /\ clusters[obs] # NearestInitial(obs)
         /\ self.nc[clusters[obs]] >= 2
         /\ centers[clusters[obs]] = MeanOf(MembersIn(clusters, clusters[obs]))

(***************************************************************************)
(* HartiganWong: the two closest centres                                   *)
(***************************************************************************)
\* the squared distance from observation obs to the centre c that run()
\* was given
InitialDist(obs, c) == raw_distance(entry.centers[c], Vec(data[obs]))

\* the setup scan is over and no step of a stage has been made: at the
\* first observation of the first optimal-transfer pass, at the return
\* with an empty cluster, or at the end of run() when max_iterations is 0
SetupScanned ==
    /\ algo = "HartiganWong" /\ ~is_edge_case(nobs, ncenters)
    /\ \/ pc = "optra" /\ loc.iter = 1 /\ loc.obs = 0
       \/ pc = "done" /\ details.status = 1
       \/ pc = "hw_ret" /\ cfg.maxiter = 0

\* ic1 is a centre at minimum distance, ic2 one at minimum distance among
\* the others
TwoClosestFound ==
    \A obs \in Obs :
        /\ clusters[obs] \in Cen /\ self.ic2[obs] \in Cen
        /\ clusters[obs] # self.ic2[obs]
        /\ \A c \in Cen : RLe(InitialDist(obs, clusters[obs]), InitialDist(obs, c))
        /\ \A c \in Cen \ {clusters[obs]} :
               RLe(InitialDist(obs, self.ic2[obs]), InitialDist(obs, c))

\* C31: after the setup scan of HartiganWong every observation has in ic1 a
\* centre at minimum squared distance and in ic2 a centre at minimum
\* squared distance among the remaining ones, with ic1 # ic2; and
\* ic1[obs] # ic2[obs] stays true through every step of both stages.
C31_TwoClosest ==
    /\ SetupScanned => TwoClosestFound
    /\ PastSetup => \A obs \in Obs : self.ic2[obs] \in Cen /\ clusters[obs] # self.ic2[obs]

\* with three centres: a transfer has moved an observation away from the
\* centre the scan found nearest, which is now its ic2
C31_Witness ==
    /\ PastSetup /\ ncenters = 3
    /\ \E obs \in Obs :
         /\ clusters[obs] # NearestInitial(obs)
         /\ self.ic2[obs] = NearestInitial(obs)

(***************************************************************************)
(* HartiganWong: the live set                                              *)
(***************************************************************************)
\* cluster c is in the live set at the observation the optimal-transfer
\* pass is about to process
LiveAt(c) == loc.obs < self.live[c]

\* the number of further optimal-transfer steps for which cluster c stays
\* in the live set if nothing updates it; between two passes the next
\* observation is the first one
Horizon(c) == self.live[c] - (IF pc = "optra" THEN loc.obs ELSE 0)

\* the clusters that the step from this state to the next moves an
\* observation between
Moved == {clusters[obs] : obs \in {o \in Obs : clusters'[o] # clusters[o]}}
            \cup {clusters'[obs] : obs \in {o \in Obs : clusters'[o] # clusters[o]}}

\* the cluster that the step of the optimal-transfer pass has chosen for
\* the observation: the one it is moved to, or else its new ic2
Target == IF clusters'[loc.obs] # clusters[loc.obs] THEN clusters'[loc.obs]
          ELSE self'.ic2[loc.obs]

\* the flags itran: cleared when the optimal-transfer pass is over, set in
\* the quick-transfer stage for the two clusters of every transfer, and
\* left alone by the optimal-transfer pass
TouchedByQuickTransfer ==
    algo = "HartiganWong" =>
        /\ (pc = "optra" /\ pc' = "qtran") => \A c \in Cen : ~self'.itran[c]
        /\ (pc = "optra" /\ pc' = "optra") => self'.itran = self.itran
        /\ (pc = "qtran" /\ pc' \in {"qtran", "optra"}) =>
             \A c \in Cen : self'.itran[c] <=> (self.itran[c] \/ c \in Moved)

\* the live set as a countdown: an optimal transfer gives its two clusters
\* nobs - 1 further steps, every other step takes one away, the quick-
\* transfer stage leaves the count, and on entry to a pass the clusters the
\* stage before has touched (all clusters, on the first entry) get nobs
LiveCountdown ==
    algo = "HartiganWong" =>
        /\ (pc = "optra" /\ pc' \in {"optra", "qtran"}) =>
             \A c \in Cen :
                 Horizon(c)' = (IF c \in Moved THEN nobs - 1 ELSE Horizon(c) - 1)
        /\ (pc = "qtran" /\ pc' = "qtran") => \A c \in Cen : Horizon(c)' = Horizon(c)
        /\ (pc = "qtran" /\ pc' = "optra") =>
             \A c \in Cen : Horizon(c)' = (IF self.itran[c] THEN nobs ELSE Horizon(c))
        /\ (pc = "call" /\ pc' = "optra") => \A c \in Cen : Horizon(c)' = nobs

\* a step of the pass for an observation whose cluster is not live and not
\* down to this one observation chooses a live cluster or keeps to the
\* observation's ic2
TargetsLiveOrSecond ==
    (algo = "HartiganWong" /\ pc = "optra"
       /\ ~LiveAt(clusters[loc.obs]) /\ self.nc[clusters[loc.obs]] # 1) =>
        LiveAt(Target) \/ Target = self.ic2[loc.obs]

\* as stated: such a step chooses a live cluster, when there is one
TargetsLive ==
    (algo = "HartiganWong" /\ pc = "optra"
       /\ ~LiveAt(clusters[loc.obs]) /\ self.nc[clusters[loc.obs]] # 1
       /\ \E c \in Cen : LiveAt(c)) =>
        LiveAt(Target)

\* every cluster flagged by the quick-transfer stage before is live at
\* every observation of the pass
TouchedAreLive ==
    (algo = "HartiganWong" /\ pc = "optra") =>
        \A c \in Cen : self.itran[c] => self.live[c] >= nobs

WindowEnds ==
    loc.iter > 1 /\ (loc.iter - 1) % cfg.history = 0

\* the iteration at hand opens a window
WindowStarts ==
    loc.iter > 1 /\ (loc.iter - 2) % cfg.history = 0

\* in the counts u every cluster has fewer changed than max_change times
\* sampled assignments
FewChanges(u) ==
    \A c \in Cen : RLt(R(u.last_changed[c]),
                       RMul(R(u.last_sampled[c]), cfg.max_change))

\* the counts after the iteration at hand, before any reset
CountsOfStep ==
    CountUpdates([last_sampled |-> loc.last_sampled,
                  last_changed |-> loc.last_changed],
                 loc'.previous, clusters',
                 sample_without_replacement(nobs,
                     IF cfg.batch_size < nobs THEN cfg.batch_size ELSE nobs,
                     loc.eng).sofar, 1)

\* the step leaves the loop of MiniBatch::run by its break
StopsEarly ==
    pc = "mb_loop" /\ pc' = "mb_ret" /\ loc'.iter = loc.iter

\* a window starts with counts of zero
WindowCountsFresh ==
    (algo = "MiniBatch" /\ pc = "mb_loop" /\ WindowStarts) =>
        \A c \in Cen : loc.last_sampled[c] = 0 /\ loc.last_changed[c] = 0

\* the loop is left early at the end of a window with few changes, and at
\* no other iteration
StopsAtWindowEnd ==
    (algo = "MiniBatch" /\ pc = "mb_loop") =>
        (StopsEarly <=> (WindowEnds /\ FewChanges(CountsOfStep)))

\* a run that left the loop early does not return status 2
EarlyStatus ==
    (algo = "MiniBatch" /\ pc = "mb_ret" /\ loc.iter <= cfg.maxiter) =>
        details'.status \in {0, 1}

\* C33: for every history >= 1 the convergence test of MiniBatch is made
\* once every history iterations, over counts that start from zero history
\* iterations before, and the loop is left early, without status 2, at the
\* first test in which every cluster has fewer changed than
\* max_change_proportion times sampled assignments.
C33_ConvergenceTest ==
    []WindowCountsFresh /\ [][StopsAtWindowEnd /\ EarlyStatus]_vars

(***************************************************************************)
(* The final pass of MiniBatch                                             *)
(***************************************************************************)
\* the step is the part of MiniBatch::run after its loop
FinalPass == algo = "MiniBatch" /\ pc = "mb_ret" /\ pc' = "done"

\* the step labels every observation with a centroid, of those it finds,
\* at the least squared distance
LabelsNearest ==
    \A obs \in Obs : \A c \in Cen :
        RLe(raw_distance(centers[clusters'[obs]], Vec(data[obs])),
            raw_distance(centers[c], Vec(data[obs])))

\* the sizes and centroids that the step returns are those of its labels
SizesAndCentroidsFromLabels ==
    /\ DOMAIN details'.sizes = Cen
    /\ \A c \in Cen :
         /\ details'.sizes[c] = Cardinality(MembersIn(clusters', c))
         /\ MembersIn(clusters', c) # {} =>
                centers'[c] = MeanOf(MembersIn(clusters', c))
    /\ SumSizes(details'.sizes, 0) = nobs

\* the status that the step returns
FinalStatus ==
    details'.status =
        IF \E c \in Cen : MembersIn(clusters', c) = {} THEN 1
        ELSE IF loc.iter = cfg.maxiter + 1 THEN 2
        ELSE 0

\* C34: after its loop MiniBatch labels every observation with its nearest
\* current centroid and computes sizes and centroids from these labels, so
\* that the returned sizes sum to nobs; the returned status is 1 iff a
\* cluster is empty in this pass, otherwise 2 if the iterations ran out,
\* otherwise 0.
C34_FinalPass ==
    [][FinalPass => (LabelsNearest /\ SizesAndCentroidsFromLabels /\ FinalStatus)]_vars

\* MiniBatch has returned status 1 after all its iterations, with the
\* sizes of its final pass
C34_Witness ==
    /\ algo = "MiniBatch" /\ pc = "done" /\ nobs > 0
    /\ cfg.maxiter >= 1 /\ loc # None /\ loc.iter = cfg.maxiter + 1
    /\ details.status = 1
    /\ SumSizes(details.sizes, 0) = nobs

(***************************************************************************)
(* The running means of MiniBatch                                          *)
(***************************************************************************)
\* the observations that the iteration at hand samples
Chosen ==
    LET s == sample_without_replacement(nobs,
                 IF cfg.batch_size < nobs THEN cfg.batch_size ELSE nobs,
                 loc.eng).sofar
    IN  {s[i] : i \in DOMAIN s}

\* the sum, in dimension dim, of all the observations sampled into cluster
\* c so far, each as often as it was sampled, if centroid c is their mean;
\* no observation and a sum of zero before the first sample
SampledSum(cs, total, c, dim) ==
    IF total[c] = 0 THEN Zero ELSE RMul(cs[c][dim], R(total[c]))

\* an iteration adds the observations it samples into a cluster to the
\* count and to the sum of the cluster: by induction on the iterations, the
\* centroid of a cluster with a sample is the mean of all its samples
MeansOfSamples ==
    (algo = "MiniBatch" /\ pc = "mb_loop") =>
        \A c \in Cen :
            LET S == {obs \in Chosen : clusters'[obs] = c}
            IN  /\ loc'.total_sampled[c] = loc.total_sampled[c] + Cardinality(S)
                /\ \A dim \in 1..ndim :
                     SampledSum(centers', loc'.total_sampled, c, dim) =
                         RAdd(SampledSum(centers, loc.total_sampled, c, dim),
                              R(SumOver(S, dim)))
                /\ loc'.total_sampled[c] = 0 => centers'[c] = centers[c]

\* C35: at the end of every iteration of the loop of MiniBatch, the
\* centroid of every cluster that has had a sampled observation is the
\* exact mean of all the observations sampled into it so far, each counted
\* as often as it was sampled; the centroid given on entry has no part in
\* it once there is a sample.
C35_MeansOfSamples == [][MeansOfSamples]_vars

\* after two iterations and more, a cluster has had three samples and more
\* and its centroid is not the one given on entry
C35_Witness ==
    /\ algo = "MiniBatch" /\ pc \in {"mb_loop", "mb_ret"} /\ loc.iter >= 3
    /\ \E c \in Cen : /\ loc.total_sampled[c] >= 3
                      /\ centers[c] # entry.centers[c]

(***************************************************************************)
(* sample_without_replacement                                              *)
(***************************************************************************)
\* C36: for every population >= 0, every choose >= 0 and every list of
\* draws in [0, 1), sample_without_replacement returns min(choose,
\* population) indices, strictly increasing and all in [0, population).
C36_Sample ==
    (algo = "sample_without_replacement" /\ pc = "done") =>
        LET sofar == details.sofar
        IN  /\ Len(sofar) = IF cfg.choose < cfg.population THEN cfg.choose
                            ELSE cfg.population
            /\ \A i \in DOMAIN sofar : sofar[i] \in 0..(cfg.population - 1)
            /\ \A i, j \in DOMAIN sofar : i < j => sofar[i] < sofar[j]

\* two of four indices chosen by the loop, the first passed over and the
\* last one taken
C36_Witness ==
    /\ algo = "sample_without_replacement" /\ pc = "done"
    /\ cfg.population = 4 /\ cfg.choose = 2
    /\ details.sofar = <<1, 3>>

(***************************************************************************)
(* The centers of InitializeKmeansPP                                       *)
(***************************************************************************)
\* the number of distinct points in the data
DistinctPoints == Cardinality({data[obs] : obs \in Obs})

\* the observations selected so far are distinct points
SelectedDistinct ==
    (algo = "InitializeKmeansPP" /\ loc # None) =>
        \A i, j \in DOMAIN loc.sofar :
            i # j => data[loc.sofar[i]] # data[loc.sofar[j]]

\* the weight of an observation is zero exactly when it coincides with a
\* selected one
WeightZeroAtSelected ==
    (algo = "InitializeKmeansPP" /\ pc \in {"kpp_loop", "kpp_ret"}
        /\ Len(loc.sofar) >= 2) =>
        \A obs \in Obs :
            (\E i \in 1..(Len(loc.sofar) - 1) : data[loc.sofar[i]] = data[obs])
                => loc.mindist[obs] = Zero

\* fewer centers than asked for: no weight is left and the data have fewer
\* distinct points than that
FewerWhenNoWeight ==
    (algo = "InitializeKmeansPP" /\ pc = "done") =>
        /\ (details.returned < ncenters <=> DistinctPoints < ncenters)
        /\ (details.returned < ncenters /\ nobs > 0) =>
               /\ details.returned = DistinctPoints
               /\ \A obs \in Obs : loc.mindist[obs] = Zero

\* C37: InitializeKmeansPP never selects an observation that coincides with
\* one selected before, so that the selected centers are distinct points,
\* and it returns fewer than ncenters centers exactly when no weight is
\* left, that is, when the data have fewer than ncenters distinct points.
C37_DistinctCenters ==
    SelectedDistinct /\ WeightZeroAtSelected /\ FewerWhenNoWeight

\* InitializeKmeansPP has returned two centers where three were asked for,
\* on data with a repeated point
C37_Witness ==
    /\ algo = "InitializeKmeansPP" /\ pc = "done" /\ nobs >= 3
    /\ ncenters = 3 /\ details.returned = 2 /\ DistinctPoints = 2

(***************************************************************************)
(* The clusters of InitializePCAPartition                                  *)
(***************************************************************************)
\* InitializePCAPartition has set up its first cluster
Partitioning ==
    /\ algo = "InitializePCAPartition" /\ loc # None
    /\ pc \in {"pca_loop", "pca_ret", "done"}

\* the number of clusters created so far
Created == IF pc = "done" THEN details.returned ELSE loc.cluster

\* the members of cluster c
MemberList(c) == {loc.assignments[c][i] : i \in DOMAIN loc.assignments[c]}

\* the member lists of the clusters created so far are not empty, have no
\* observation twice or in common, and have every observation between
\* them; the center of each is the mean of its members
PartitionKept ==
    Partitioning =>
        /\ Created \in 1..ncenters
        /\ \A c \in 0..(Created - 1) :
             /\ loc.assignments[c] # <<>>
             /\ Cardinality(MemberList(c)) = Len(loc.assignments[c])
             /\ centers[c] = MeanOf(MemberList(c))
             /\ \A e \in 0..(Created - 1) :
                    e # c => MemberList(c) \cap MemberList(e) = {}
        /\ UNION {MemberList(c) : c \in 0..(Created - 1)} = Obs

\* the two sides of the split that the iteration at hand tries
SplitSides ==
    LET worst == WorstCluster(loc.mrse, loc.assignments, loc.cluster, 0, Zero, 0)
        pc1   == compute_pc1(loc.assignments[worst], data, centers[worst],
                             loc.eng).output
    IN  [side \in BOOLEAN |-> Side(data, loc.assignments[worst],
                                    centers[worst], pc1, side)]

\* an iteration whose split has an empty side ends the run with the
\* clusters created before it, and changes neither buffer; every other
\* iteration creates one cluster
EmptySideEnds ==
    (algo = "InitializePCAPartition" /\ pc = "pca_loop") =>
        IF SplitSides[TRUE] = <<>> \/ SplitSides[FALSE] = <<>>
        THEN /\ pc' = "done" /\ details'.returned = loc.cluster
             /\ centers' = centers /\ clusters' = clusters
        ELSE pc' # "done" /\ loc'.cluster = loc.cluster + 1

\* C38: at every step of InitializePCAPartition the member lists of the
\* clusters created so far are not empty, pairwise disjoint and cover all
\* observations, and the center of each created cluster is the mean of its
\* members; a split with an empty side changes nothing more and ends the
\* run, and the count returned is the number of clusters created.
C38_Partition == []PartitionKept /\ [][EmptySideEnds]_vars

\* InitializePCAPartition has returned two clusters where three were asked
\* for: one split was made and the next had an empty side
C38_Witness ==
    /\ algo = "InitializePCAPartition" /\ pc = "done" /\ loc # None
    /\ ncenters = 3 /\ details.returned = 2
    /\ loc.assignments[0] # <<>> /\ loc.assignments[1] # <<>>

(***************************************************************************)
(* Lloyd: the labels of the no-change exit                                 *)
(***************************************************************************)
\* the label of every observation is what the search over the centers
\* gives for it, and no other center is strictly closer to the observation
\* than the one of its label
LabelsAreNearest ==
    \E index \in {QuickSearch(ncenters, centers)} :
        \A obs \in Obs :
            /\ clusters[obs] = find(Vec(data[obs]), index, centers)
            /\ \A c \in Cen :
                   RLe(raw_distance(centers[clusters[obs]], Vec(data[obs])),
                       raw_distance(centers[c], Vec(data[obs])))

\* C39: when Lloyd returns through its no-change exit, on input that is no
\* edge case, the returned label of every observation is the index that
\* the nearest-centroid search gives for it over the returned centers: no
\* observation is strictly closer to another returned centroid than to its
\* own.
C39_LabelsNearest == LloydNoChangeExit => LabelsAreNearest

\* Lloyd has left through its no-change exit after an iteration that moved
\* the centers
C39_Witness ==
    /\ LloydNoChangeExit /\ loc.iter >= 2
    /\ centers # entry.centers
    /\ \E o1, o2 \in Obs : clusters[o1] # clusters[o2]

=============================================================================
